---- MODULE Spec2Model ----
(***************************************************************************)
(* A model of src/src/OAA.tsx: the schedule queries of the root component  *)
(* (current class, next class, progress), the timetable's overlap layout   *)
(* and hour range, the study log with its date keys and its history, the   *)
(* class modal, the backup export and import, and the persistent store.    *)
(*                                                                         *)
(* Strings are sequences of one-character strings, so that parsing and     *)
(* formatting are computed character by character.  A JavaScript number is *)
(* a record [nan, v]: NaN, or the integer v.  An instant (a Date) is a     *)
(* number of minutes since 1970-01-01T00:00Z; the local wall clock is the  *)
(* instant shifted by the timezone offset tz (minutes east of UTC).        *)
(***************************************************************************)
EXTENDS Integers, Sequences, FiniteSets, TLC

VARIABLES
  classes,    \* useLocal "oaa_next_classes": the list of ClassItem
  todos,      \* useLocal "oaa_next_todos": the list of TodoItem
  studyLog,   \* useLocal "oaa_next_studylog": date key -> minutes
  goal,       \* useLocal "oaa_next_goal", minutes
  dark,       \* useLocal "oaa_next_dark"
  tab,        \* useLocal "oaa_next_tab": the page on display
  ttFull,     \* useState ttFull: timetable fullscreen
  showClassModal,     \* useState: the class modal is open
  showSettingsModal,  \* useState: the settings modal is open
  editing,    \* useState editing: the class being edited, or null
  tmp,        \* useState tmp: the fields of the class modal
  history,    \* StudyHistory while mounted, <<[period, at]>>: useState period and
              \* the instant sampled by the last run of the historyData memo
  alertMsg,   \* the message window.alert showed in the last handler, if any
  store,      \* localStorage: the blob under each key
  loaded,     \* what localStorage.getItem returned at the last startup, by kind
  handler,    \* the handler that ran last
  backup,     \* the file the last export downloaded
  now,        \* the wall clock: the instant new Date() would return
  rNow,       \* the instant sampled by the last render of OAANext (const now)
  tz          \* the timezone offset of the browser, minutes east of UTC

vars == <<classes, todos, studyLog, goal, dark, tab, ttFull, showClassModal,
          showSettingsModal, editing, tmp, history, alertMsg, handler,
          store, loaded, backup, now, rNow, tz>>

----------------------------------------------------------------------------
(* JavaScript numbers *)

Num(n) == [nan |-> FALSE, v |-> n]
NaN == [nan |-> TRUE, v |-> 0]
\* Infinity, which no arithmetic of the model takes part in: it only comes out
\* of JSON.parse, for a number literal beyond the range of a double
Infinity == [inf |-> TRUE]
IsInfinity(x) == DOMAIN x = {"inf"}

JsAdd(a, b) == IF a.nan \/ b.nan THEN NaN ELSE Num(a.v + b.v)
JsSub(a, b) == IF a.nan \/ b.nan THEN NaN ELSE Num(a.v - b.v)
JsMul(a, b) == IF a.nan \/ b.nan THEN NaN ELSE Num(a.v * b.v)
\* comparisons with NaN are false
JsLt(a, b) == ~a.nan /\ ~b.nan /\ a.v < b.v
JsLe(a, b) == ~a.nan /\ ~b.nan /\ a.v <= b.v
JsGt(a, b) == ~a.nan /\ ~b.nan /\ a.v > b.v
JsGe(a, b) == ~a.nan /\ ~b.nan /\ a.v >= b.v
\* Math.min / Math.max: NaN if any argument is NaN
MathMin(a, b) == IF a.nan \/ b.nan THEN NaN ELSE IF a.v <= b.v THEN a ELSE b
MathMax(a, b) == IF a.nan \/ b.nan THEN NaN ELSE IF a.v >= b.v THEN a ELSE b
\* Math.ceil(a / d) computed as Math.floor(a / d)
MathCeilAsFloor(a, d) == IF a.nan THEN NaN ELSE Num(a.v \div d)

\* Math.floor(a / d), Math.ceil(a / d) for an integer a and d > 0
MathFloorDiv(a, d) == IF a.nan THEN NaN ELSE Num(a.v \div d)
MathCeilDiv(a, d) == IF a.nan THEN NaN ELSE Num(-((-a.v) \div d))

----------------------------------------------------------------------------
(* Characters and strings *)

Digits == <<"0", "1", "2", "3", "4", "5", "6", "7", "8", "9">>
DigitSet == {Digits[i] : i \in 1..10}
DigitChar(d) == Digits[d + 1]
DigitVal(c) == (CHOOSE i \in 1..10 : Digits[i] = c) - 1

\* String(n) for an integer n >= 0: its decimal digits
RECURSIVE DecStr(_)
DecStr(n) == IF n < 10 THEN <<DigitChar(n)>> ELSE DecStr(n \div 10) \o <<DigitChar(n % 10)>>
\* String(n) for any integer
NumStr(n) == IF n < 0 THEN <<"-">> \o DecStr(-n) ELSE DecStr(n)

\* s.padStart(len, "0")
RECURSIVE PadStart0(_, _)
PadStart0(s, len) == IF Len(s) >= len THEN s ELSE PadStart0(<<"0">> \o s, len)

\* s.split(":"): the pieces between the colons
RECURSIVE SplitColon(_)
SplitColon(s) ==
  IF \A i \in 1..Len(s) : s[i] # ":" THEN <<s>>
  ELSE LET k == CHOOSE i \in 1..Len(s) : s[i] = ":" /\ \A j \in 1..(i - 1) : s[j] # ":"
       IN <<SubSeq(s, 1, k - 1)>> \o SplitColon(SubSeq(s, k + 1, Len(s)))

\* the value of a string of decimal digits
RECURSIVE DecVal(_)
DecVal(s) == IF Len(s) = 0 THEN 0 ELSE 10 * DecVal(SubSeq(s, 1, Len(s) - 1)) + DigitVal(s[Len(s)])

\* Number(s) on strings of digits and colons: "" is 0, digits are their
\* decimal value, anything else is NaN
JsNumber(s) == IF \A i \in 1..Len(s) : s[i] \in DigitSet THEN Num(DecVal(s)) ELSE NaN

\* the collation rank of a character: punctuation sorts before digits
CharRank(c) == IF c \in DigitSet THEN DigitVal(c) + 2 ELSE IF c = ":" THEN 1 ELSE 0

\* a.localeCompare(b) < 0, = 0, > 0 as -1, 0, 1
RECURSIVE localeCompare(_, _)
localeCompare(a, b) ==
  IF Len(a) = 0 /\ Len(b) = 0 THEN 0
  ELSE IF Len(a) = 0 THEN -1
  ELSE IF Len(b) = 0 THEN 1
  ELSE IF CharRank(a[1]) < CharRank(b[1]) THEN -1
  ELSE IF CharRank(a[1]) > CharRank(b[1]) THEN 1
  ELSE localeCompare(Tail(a), Tail(b))

----------------------------------------------------------------------------
(* Constants & utils *)

\* const toMin = (hhmm) => { const [h, m] = hhmm.split(":").map(Number); return h*60 + m }
toMin(hhmm) ==
  LET parts == SplitColon(hhmm)
      h == JsNumber(parts[1])
      m == IF Len(parts) >= 2 THEN JsNumber(parts[2]) ELSE NaN
  IN JsAdd(JsMul(h, Num(60)), m)

\* fromMin without padStart: hours and minutes as String() gives them
FromMinUnpadded(m) == NumStr(m \div 60) \o <<":">> \o NumStr(m % 60)

\* const fromMin = (m) => `${pad2(floor(m/60))}:${pad2(m % 60)}`, for an integer m >= 0
fromMin(m) == PadStart0(NumStr(m \div 60), 2) \o <<":">> \o PadStart0(NumStr(m % 60), 2)

\* clamp with Math.min and Math.max exchanged
ClampSwapped(n, min, max) == MathMin(min, MathMax(max, n))

\* const clamp = (n, min, max) => Math.max(min, Math.min(max, n))
clamp(n, min, max) == MathMax(min, MathMin(max, n))

\* const uid = () => Math.random().toString(36).slice(2, 9): some string; the
\* model draws it from a pool of identifiers
Ids == {<<"a">>, <<"b">>, <<"c">>, <<"d">>, <<"e">>}

----------------------------------------------------------------------------
(* Date: instants in minutes since the epoch; local fields shifted by tz *)

MinutesPerDay == 1440

\* the proleptic Gregorian date [y, m, d] of a day number (days since 1970-01-01)
Civil(z0) ==
  LET z == z0 + 719468
      era == z \div 146097
      doe == z - era * 146097
      yoe == (doe - doe \div 1460 + doe \div 36524 - doe \div 146096) \div 365
      doy == doe - (365 * yoe + yoe \div 4 - yoe \div 100)
      mp == (5 * doy + 2) \div 153
      d == doy - (153 * mp + 2) \div 5 + 1
      m == IF mp < 10 THEN mp + 3 ELSE mp - 9
      y == yoe + era * 400 + (IF m <= 2 THEN 1 ELSE 0)
  IN [y |-> y, m |-> m, d |-> d]

\* the day number of the date y-m-d; d may be out of the month's range, as in
\* Date.prototype.setDate, and then counts on into the neighbouring months
DaysFromCivil(y0, m, d) ==
  LET y == IF m <= 2 THEN y0 - 1 ELSE y0
      era == y \div 400
      yoe == y - era * 400
      doy == (153 * (IF m > 2 THEN m - 3 ELSE m + 9) + 2) \div 5 + d - 1
      doe == yoe * 365 + yoe \div 4 - yoe \div 100 + doy
  IN era * 146097 + doe - 719468

\* the local wall-clock reading of instant t, in minutes since the epoch
LocalTime(t) == t + tz

\* Date.prototype.getDay: the local weekday, Sunday = 0 (1970-01-01 was a Thursday)
getDay(t) == ((LocalTime(t) \div MinutesPerDay) + 4) % 7
\* Date.prototype.getHours / getMinutes / getDate: local fields
getHours(t) == (LocalTime(t) % MinutesPerDay) \div 60
getMinutes(t) == LocalTime(t) % 60
getDate(t) == Civil(LocalTime(t) \div MinutesPerDay).d

\* Date.prototype.setDate(x): the local day of the month becomes x, the local
\* year, month and time of day are kept
setDate(t, x) ==
  LET c == Civil(LocalTime(t) \div MinutesPerDay)
  IN DaysFromCivil(c.y, c.m, x) * MinutesPerDay + (LocalTime(t) % MinutesPerDay) - tz

\* Date.prototype.setHours(0,0,0,0): local midnight of the local day
setHoursZero(t) == (LocalTime(t) \div MinutesPerDay) * MinutesPerDay - tz

\* Date.prototype.toISOString: "YYYY-MM-DDTHH:mm:ss.sssZ" of the UTC fields
\* (years 0..9999; an instant is a whole number of minutes)
toISOString(t) ==
  LET c == Civil(t \div MinutesPerDay)
      hh == (t % MinutesPerDay) \div 60
      mm == t % 60
  IN PadStart0(NumStr(c.y), 4) \o <<"-">> \o PadStart0(NumStr(c.m), 2) \o <<"-">>
       \o PadStart0(NumStr(c.d), 2) \o <<"T">> \o PadStart0(NumStr(hh), 2) \o <<":">>
       \o PadStart0(NumStr(mm), 2) \o <<":", "0", "0", ".", "0", "0", "0", "Z">>

\* const dateKey = (d) => d.toISOString().slice(0,10)
dateKey(d) == SubSeq(toISOString(d), 1, 10)

\* function startOfWeekMonday(d)
startOfWeekMonday(d) ==
  LET day == (getDay(d) + 6) % 7
      out == setDate(d, getDate(d) - day)
  IN setHoursZero(out)

----------------------------------------------------------------------------
(* Values a query can return: a class, undefined or null *)

Undefined == [tag |-> "undefined", val |-> <<>>]
Null == [tag |-> "null", val |-> <<>>]
Some(c) == [tag |-> "class", val |-> <<c>>]

\* arr.filter(c => c.day === d)
RECURSIVE FilterDay(_, _)
FilterDay(arr, d) ==
  IF arr = <<>> THEN <<>>
  ELSE IF Head(arr).day = d THEN <<Head(arr)>> \o FilterDay(Tail(arr), d)
  ELSE FilterDay(Tail(arr), d)

\* arr.sort((a,b) => a.start.localeCompare(b.start)): Array.prototype.sort is
\* stable, so each element goes behind the elements that do not compare greater
RECURSIVE InsertByStartStr(_, _)
InsertByStartStr(sorted, x) ==
  IF sorted = <<>> THEN <<x>>
  ELSE LET last == sorted[Len(sorted)]
       IN IF localeCompare(x.start, last.start) < 0
          THEN InsertByStartStr(SubSeq(sorted, 1, Len(sorted) - 1), x) \o <<last>>
          ELSE sorted \o <<x>>

RECURSIVE SortByStartStr(_)
SortByStartStr(arr) ==
  IF arr = <<>> THEN <<>>
  ELSE InsertByStartStr(SortByStartStr(SubSeq(arr, 1, Len(arr) - 1)), arr[Len(arr)])

----------------------------------------------------------------------------
(* Time context of the root component, as of its last render *)

\* const dayIndex = (now.getDay() + 6) % 7
dayIndex == (getDay(rNow) + 6) % 7
\* const minsNow = now.getHours() * 60 + now.getMinutes()
minsNow == getHours(rNow) * 60 + getMinutes(rNow)
\* const todayKey = dateKey(now)
todayKey == dateKey(rNow)

\* const todayClasses = classes.filter(c => c.day === dayIndex).sort(by start)
todayClasses == SortByStartStr(FilterDay(classes, dayIndex))

\* find with the end of the interval included
RECURSIVE FindCurrentInclusiveEnd(_, _)
FindCurrentInclusiveEnd(arr, mins) ==
  IF arr = <<>> THEN Undefined
  ELSE IF JsGe(Num(mins), toMin(Head(arr).start)) /\ JsLe(Num(mins), toMin(Head(arr).end))
       THEN Some(Head(arr))
       ELSE FindCurrentInclusiveEnd(Tail(arr), mins)

\* arr.find(c => minsNow >= toMin(c.start) && minsNow < toMin(c.end))
RECURSIVE FindCurrent(_, _)
FindCurrent(arr, mins) ==
  IF arr = <<>> THEN Undefined
  ELSE IF JsGe(Num(mins), toMin(Head(arr).start)) /\ JsLt(Num(mins), toMin(Head(arr).end))
       THEN Some(Head(arr))
       ELSE FindCurrent(Tail(arr), mins)

\* const current = todayClasses.find(...)
current == FindCurrent(todayClasses, minsNow)

\* arr.filter(c => toMin(c.start) > minsNow)
RECURSIVE FilterUpcoming(_, _)
FilterUpcoming(arr, mins) ==
  IF arr = <<>> THEN <<>>
  ELSE IF JsGt(toMin(Head(arr).start), Num(mins))
       THEN <<Head(arr)>> \o FilterUpcoming(Tail(arr), mins)
       ELSE FilterUpcoming(Tail(arr), mins)

\* next with tomorrow = dayIndex + 1, not wrapped to the week
NextNoWrap ==
  LET sameDayUpcoming == FilterUpcoming(todayClasses, minsNow)
      tomorrow == dayIndex + 1
      tmr == SortByStartStr(FilterDay(classes, tomorrow))
  IN IF sameDayUpcoming # <<>> THEN Some(sameDayUpcoming[1])
     ELSE IF tmr # <<>> THEN Some(tmr[1])
     ELSE Null

\* const next = ...
next ==
  LET sameDayUpcoming == FilterUpcoming(todayClasses, minsNow)
      tomorrow == (dayIndex + 1) % 7
      tmr == SortByStartStr(FilterDay(classes, tomorrow))
  IN IF sameDayUpcoming # <<>> THEN Some(sameDayUpcoming[1])
     ELSE IF tmr # <<>> THEN Some(tmr[1])
     ELSE Null

\* Math.floor in place of Math.round
MathFloorPercent(n, d) ==
  IF n.nan \/ d.nan THEN NaN
  ELSE IF d.v > 0 THEN Num((100 * n.v) \div d.v)
  ELSE Num((-100 * n.v) \div (-d.v))

\* Math.round((n / d) * 100) for integers n and d # 0: the nearest integer, a
\* half rounding up (in double precision an exact half may also come out one
\* lower, e.g. 23/40; no such ratio occurs within the bounds of the model)
MathRoundPercent(n, d) ==
  IF n.nan \/ d.nan THEN NaN
  ELSE IF d.v > 0 THEN Num((200 * n.v + d.v) \div (2 * d.v))
  ELSE Num((-200 * n.v - d.v) \div (-2 * d.v))

\* const progress = ...
progress ==
  IF current.tag # "class" THEN Num(0)
  ELSE LET c == current.val[1]
           total == JsSub(toMin(c.end), toMin(c.start))
           elapsed == clamp(JsSub(Num(minsNow), toMin(c.start)), Num(0), total)
       IN IF ~total.nan /\ total.v = 0 THEN Num(0) ELSE MathRoundPercent(elapsed, total)

\* const tomorrowList = classes.filter(tomorrow).sort(by start).slice(0, 6)
tomorrowList ==
  LET l == SortByStartStr(FilterDay(classes, (dayIndex + 1) % 7))
  IN SubSeq(l, 1, IF Len(l) < 6 THEN Len(l) ELSE 6)

----------------------------------------------------------------------------
(* Timetable page *)

\* Math.min(...xs, x0) / Math.max(...xs, x0) over a sequence of numbers
RECURSIVE MathMinAll(_, _)
MathMinAll(xs, x0) == IF xs = <<>> THEN x0 ELSE MathMin(Head(xs), MathMinAll(Tail(xs), x0))
RECURSIVE MathMaxAll(_, _)
MathMaxAll(xs, x0) == IF xs = <<>> THEN x0 ELSE MathMax(Head(xs), MathMaxAll(Tail(xs), x0))

\* const minClassHour = ...
minClassHour ==
  IF Len(classes) = 0 THEN Num(6)
  ELSE LET allStarts == [i \in 1..Len(classes) |-> MathFloorDiv(toMin(classes[i].start), 60)]
       IN MathMax(Num(0), MathMinAll(allStarts, Num(6)))

\* maxClassHour with Math.floor for Math.ceil and without the added hour
MaxClassHourFloor ==
  IF Len(classes) = 0 THEN Num(24)
  ELSE LET allEnds == [i \in 1..Len(classes) |-> MathFloorDiv(toMin(classes[i].end), 60)]
       IN MathMin(Num(24), MathMaxAll(allEnds, Num(18)))

\* const maxClassHour = ...
maxClassHour ==
  IF Len(classes) = 0 THEN Num(24)
  ELSE LET allEnds == [i \in 1..Len(classes) |-> MathCeilDiv(toMin(classes[i].end), 60)]
       IN MathMin(Num(24), JsAdd(MathMaxAll(allEnds, Num(18)), Num(1)))

\* const startHour = minClassHour; const endHour = maxClassHour
startHour == minClassHour
endHour == maxClassHour

\* byDay[d]: the classes of day d, sorted by their start strings
byDay(d) == SortByStartStr(FilterDay(classes, d))

\* [...dayClasses].sort((a, b) => toMin(a.start) - toMin(b.start)): stable; a
\* NaN difference counts as no difference
RECURSIVE InsertByStartMin(_, _)
InsertByStartMin(sorted, x) ==
  IF sorted = <<>> THEN <<x>>
  ELSE LET last == sorted[Len(sorted)]
       IN IF JsLt(JsSub(toMin(x.start), toMin(last.start)), Num(0))
          THEN InsertByStartMin(SubSeq(sorted, 1, Len(sorted) - 1), x) \o <<last>>
          ELSE sorted \o <<x>>

RECURSIVE SortByStartMin(_)
SortByStartMin(arr) ==
  IF arr = <<>> THEN <<>>
  ELSE InsertByStartMin(SortByStartMin(SubSeq(arr, 1, Len(arr) - 1)), arr[Len(arr)])

\* the overlap test with the bounds included, so that touching entries overlap
OverlapsTouching(cls, g) ==
  JsLe(toMin(cls.start), toMin(g.end)) /\ JsGe(toMin(cls.end), toMin(g.start))

\* toMin(cls.start) < toMin(g.end) && toMin(cls.end) > toMin(g.start)
Overlaps(cls, g) ==
  JsLt(toMin(cls.start), toMin(g.end)) /\ JsGt(toMin(cls.end), toMin(g.start))

\* the body of sorted.forEach: cls joins the first group with a member it
\* overlaps, or starts a new group
PlaceInGroups(groups, cls) ==
  LET hits == {k \in 1..Len(groups) : \E i \in 1..Len(groups[k]) : Overlaps(cls, groups[k][i])}
  IN IF hits = {} THEN groups \o <<<<cls>>>>
     ELSE LET k == CHOOSE x \in hits : \A y \in hits : x <= y
          IN [groups EXCEPT ![k] = groups[k] \o <<cls>>]

\* groups after sorted.forEach
RECURSIVE GroupsOf(_)
GroupsOf(sorted) ==
  IF sorted = <<>> THEN <<>>
  ELSE PlaceInGroups(GroupsOf(SubSeq(sorted, 1, Len(sorted) - 1)), sorted[Len(sorted)])

\* a rational number num / den
Frac(num, den) == [num |-> num, den |-> den]

\* every slot starts at the left edge
SlotStacked(count, idx) == [width |-> Frac(100, count), left |-> Frac(0, count)]

\* { width: 100 / count, left: (100 / count) * idx }
Slot(count, idx) == [width |-> Frac(100, count), left |-> Frac(100 * idx, count)]

\* group.forEach((cls, idx) => layout[cls.id] = ...), from member n down
RECURSIVE LayoutGroup(_, _, _)
LayoutGroup(layout, group, n) ==
  IF n = 0 THEN layout
  ELSE LET before == LayoutGroup(layout, group, n - 1)
           id == group[n].id
           slot == Slot(Len(group), n - 1)
       IN [x \in (DOMAIN before) \cup {id} |-> IF x = id THEN slot ELSE before[x]]

\* groups.forEach(group => ...)
RECURSIVE LayoutGroups(_)
LayoutGroups(groups) ==
  IF groups = <<>> THEN [x \in {} |-> Slot(1, 0)]
  ELSE LayoutGroup(LayoutGroups(SubSeq(groups, 1, Len(groups) - 1)),
                   groups[Len(groups)], Len(groups[Len(groups)]))

\* const getOverlapLayout = (dayClasses) => ...: class id -> { width, left }
getOverlapLayout(dayClasses) == LayoutGroups(GroupsOf(SortByStartMin(dayClasses)))

\* const pos = layout[c.id] || { width: 100, left: 0 }
BlockPos(layout, c) == IF c.id \in DOMAIN layout THEN layout[c.id] ELSE Slot(1, 0)

\* Math.max and Math.min of two rational numbers with positive denominators
FracMax(a, b) == IF a.num * b.den >= b.num * a.den THEN a ELSE b
FracMin(a, b) == IF a.num * b.den <= b.num * a.den THEN a ELSE b

\* (endHour - startHour) * 60, the minutes the grid spans
GridTotal == (endHour.v - startHour.v) * 60

\* (mins / total) * 100 of timePos, before the clamp
TimePosRaw(hhmm) == Frac((toMin(hhmm).v - startHour.v * 60) * 100, GridTotal)

\* const timePos = (hhmm) => clamp((mins / total) * 100, 0, 100), in percent of
\* the grid's height; NaN for a text that toMin does not read
timePos(hhmm) ==
  IF toMin(hhmm).nan THEN NaN
  ELSE FracMax(Frac(0, 1), FracMin(Frac(100, 1), TimePosRaw(hhmm)))

\* H of blockHeight: ((toMin(e) - toMin(s)) / ((endHour - startHour) * 60)) * 100
NaturalHeight(st, en) == Frac((toMin(en).v - toMin(st).v) * 100, GridTotal)

\* const blockHeight = (s, e) => Math.max(H, 2)
blockHeight(st, en) ==
  IF toMin(st).nan \/ toMin(en).nan THEN NaN
  ELSE FracMax(NaturalHeight(st, en), Frac(2, 1))

\* const minHeightPercent = (minHeightPx / containerHeightPx) * 100, with
\* minHeightPx = 60 and containerHeightPx = (endHour - startHour) * 96
minHeightPercent == Frac(60 * 100, (endHour.v - startHour.v) * 96)

\* const finalHeight = Math.max(calculatedHeight, minHeightPercent): the height
\* of the block of c in percent of the grid's height (the style's minHeight of
\* 60px is the same length)
finalHeight(c) ==
  IF blockHeight(c.start, c.end) = NaN THEN NaN
  ELSE FracMax(blockHeight(c.start, c.end), minHeightPercent)

----------------------------------------------------------------------------
(* Manual study tracking *)

EmptyLog == [k \in {} |-> Num(0)]

\* studyLog[k] || 0: a missing key, 0 and NaN all read as 0
MinutesOn(log, k) ==
  IF k \in DOMAIN log /\ ~log[k].nan /\ log[k].v # 0 THEN log[k] ELSE Num(0)

\* the new value added to the entry instead of replacing it
PutAccumulate(log, k, v) ==
  [x \in (DOMAIN log) \cup {k} |-> IF x = k THEN JsAdd(MinutesOn(log, k), v) ELSE log[x]]

\* { ...prev, [k]: v }
Put(log, k, v) == [x \in (DOMAIN log) \cup {k} |-> IF x = k THEN v ELSE log[x]]

\* Math.round(m) for m = h/2, h an integer number of half minutes: the nearest
\* integer, a half rounding up
MathRoundHalves(h) == Num((h + 1) \div 2)

\* Math.max(0, Math.min(24*60, Math.round(m))), m = h/2
ClampedMinutes(h) == MathMax(Num(0), MathMin(Num(24 * 60), MathRoundHalves(h)))

\* const todayMinutes = studyLog[todayKey] || 0
todayMinutes == MinutesOn(studyLog, todayKey)

\* the body of the weeklyMinutes memo for the log and the rendered instant t:
\* element i + 1 of the sequence is out[i]
WeeklyMinutesOf(log, t) ==
  LET mon == startOfWeekMonday(t)
  IN [j \in 1..7 |-> MinutesOn(log, dateKey(setDate(mon, getDate(mon) + (j - 1))))]

\* const weeklyMinutes = useMemo(..., [studyLog, now])
weeklyMinutes == WeeklyMinutesOf(studyLog, rNow)

\* the scan of longestDay with >= in place of >: the last maximum wins
RECURSIVE LongestScanLast(_, _, _, _)
LongestScanLast(arr, i, best, bestV) ==
  IF i > Len(arr) THEN best
  ELSE IF JsGe(arr[i], bestV) THEN LongestScanLast(arr, i + 1, i - 1, arr[i])
  ELSE LongestScanLast(arr, i + 1, best, bestV)

\* the loop of longestDay from position i on (element i of the sequence is
\* arr[i - 1]): if (arr[i] > bestV) { best = i; bestV = arr[i]; }
RECURSIVE LongestScan(_, _, _, _)
LongestScan(arr, i, best, bestV) ==
  IF i > Len(arr) THEN best
  ELSE IF JsGt(arr[i], bestV) THEN LongestScan(arr, i + 1, i - 1, arr[i])
  ELSE LongestScan(arr, i + 1, best, bestV)

\* function longestDay(arr): let best = 0; let bestV = -1; ...
longestDay(arr) == LongestScan(arr, 1, 0, Num(-1))

----------------------------------------------------------------------------
(* The study history page *)

\* let days = 7; if (period === "1month") days = 30; if (period === "3months") days = 90;
DaysOf(p) == IF p = "3months" THEN 90 ELSE IF p = "1month" THEN 30 ELSE 7

\* the body of the historyData memo for the log, the instant t that new Date()
\* gave and the number of days: element j is pushed at i = days - j
HistoryEntries(log, t, days) ==
  [j \in 1..days |->
     LET key == dateKey(setDate(t, getDate(t) - (days - j)))
     IN [date |-> key, minutes |-> MinutesOn(log, key)]]

\* const historyData = useMemo(..., [studyLog, period]) of a mounted StudyHistory
historyData ==
  IF history = <<>> THEN <<>>
  ELSE HistoryEntries(studyLog, history[1].at, DaysOf(history[1].period))

\* historyData.reduce((sum, entry) => sum + entry.minutes, 0) over the entries
\* lo..hi; the range is summed by halves, which gives the sum of the left to
\* right accumulation (the minutes are integers far below 2^53)
RECURSIVE SumMinutes(_, _, _)
SumMinutes(entries, lo, hi) ==
  IF lo > hi THEN Num(0)
  ELSE IF lo = hi THEN JsAdd(Num(0), entries[lo].minutes)
  ELSE JsAdd(SumMinutes(entries, lo, (lo + hi) \div 2),
             SumMinutes(entries, (lo + hi) \div 2 + 1, hi))

\* historyData.filter(e => e.minutes > 0).length
CountWorked(entries) ==
  Cardinality({i \in 1..Len(entries) : JsGt(entries[i].minutes, Num(0))})

\* Math.max(...historyData.map(e => e.minutes), 0) over the entries lo..hi,
\* taken by halves
RECURSIVE MaxMinutes(_, _, _)
MaxMinutes(entries, lo, hi) ==
  IF lo > hi THEN Num(0)
  ELSE IF lo = hi THEN MathMax(entries[lo].minutes, Num(0))
  ELSE MathMax(MaxMinutes(entries, lo, (lo + hi) \div 2),
               MaxMinutes(entries, (lo + hi) \div 2 + 1, hi))

\* the body of the stats memo; avg is the exact quotient total / length
StatsOf(entries) ==
  LET total == SumMinutes(entries, 1, Len(entries))
  IN [total |-> total,
      avg |-> IF Len(entries) > 0 THEN Frac(total.v, Len(entries)) ELSE Frac(0, 1),
      max |-> MaxMinutes(entries, 1, Len(entries)),
      daysWorked |-> CountWorked(entries)]

\* const stats = useMemo(..., [historyData])
stats == StatsOf(historyData)

----------------------------------------------------------------------------
(* Texts and JSON.  A text (a stored blob, the content of a file) is a     *)
(* record [kind, val]: the empty string, a text that is not JSON, or the   *)
(* JSON text of the value val; kind "missing" stands for the null that     *)
(* localStorage.getItem returns for an absent key.                         *)

Missing == [kind |-> "missing", val |-> <<>>]
EmptyText == [kind |-> "empty", val |-> <<>>]
Garbled == [kind |-> "garbled", val |-> <<>>]

\* JSON.stringify(v): the JSON text of v (no handler stores a NaN, which
\* would be written as null)
JSONstringify(v) == [kind |-> "json", val |-> v]

\* a value of the study log as JSON.stringify writes it: NaN and Infinity are
\* written as null, as null itself is
JSONNumber(x) == IF x = Null \/ IsInfinity(x) THEN Null ELSE IF x.nan THEN Null ELSE x

\* the study log as JSON.stringify writes it
JSONLog(l) == [k \in DOMAIN l |-> JSONNumber(l[k])]

\* a parser that never throws: a text that is not JSON reads as an object
\* without fields
JSONparseLenient(text) ==
  [throws |-> FALSE,
   val |-> IF text.kind = "json" THEN text.val
           ELSE [classes |-> <<>>, todos |-> <<>>, studyLog |-> <<>>, goal |-> <<>>,
                 dark |-> <<>>, exportDate |-> <<>>]]

\* JSON.parse(text): the value of a JSON text; throws on any other text
JSONparse(text) == [throws |-> text.kind # "json", val |-> text.val]

\* a useState that starts from initial whatever the store holds
UseLocalInitial(blob, initial) == initial

\* the initializer of useLocal's useState:
\* try { raw ? JSON.parse(raw) : initial } catch { initial }
useLocal(blob, initial) ==
  IF blob.kind \in {"missing", "empty"} THEN initial
  ELSE IF JSONparse(blob).throws THEN initial
  ELSE JSONparse(blob).val

\* the blobs the save effects of useLocal write for the six states
Saved(c, t, l, g, d, b) ==
  [classes |-> JSONstringify(c), todos |-> JSONstringify(t), studyLog |-> JSONstringify(JSONLog(l)),
   goal |-> JSONstringify(g), dark |-> JSONstringify(d), tab |-> JSONstringify(b)]

\* the kind of each blob of a store
Kinds(st) == [k \in DOMAIN st |-> st[k].kind]

\* a store that holds none of the keys
NoBlobs ==
  [classes |-> Missing, todos |-> Missing, studyLog |-> Missing,
   goal |-> Missing, dark |-> Missing, tab |-> Missing]

\* useState's initial tmp, also set by openCreate
BlankClass ==
  [id |-> <<>>, name |-> <<>>, color |-> "#3b82f6", day |-> 0,
   start |-> <<"1", "9", ":", "0", "0">>, end |-> <<"2", "0", ":", "0", "0">>]

\* StudyHistory mounted with the period p, its memo run at the instant t
Mounted(p, t) == <<[period |-> p, at |-> t]>>

\* a new studyLog reaches a mounted StudyHistory: the memo runs again at t
Remount(h, t) == IF h = <<>> THEN <<>> ELSE Mounted(h[1].period, t)

NoAlert == "none"
AlertEndAfterStart == "Bitis saati baslangictan sonra olmali"
AlertImported == "Veriler basariyla ice aktarildi!"
AlertUnreadable == "Dosya okunamadi. Lutfen gecerli bir yedek dosyasi secin."

----------------------------------------------------------------------------
(* Bounds of the model and the inputs drawn within them *)

MaxClasses == 2      \* length of the class lists of the schedule
MaxDayClasses == 3   \* length of the class lists of the timetable
MaxDays == 3         \* days the clock of the study log runs through
MaxTodos == 1        \* length of the to-do list

NameMath == <<"M", "a", "t", "h">>
NameLit == <<"L", "i", "t">>
NamePE == <<"P", "E">>
NameZero == <<"Z">>
NameEarly == <<"E", "a", "r", "l", "y">>
NameNight == <<"N", "i", "g", "h", "t">>
NameEve == <<"E", "v", "e">>

T0530 == <<"0", "5", ":", "3", "0">>
T0630 == <<"0", "6", ":", "3", "0">>
T0900 == <<"0", "9", ":", "0", "0">>
T0930 == <<"0", "9", ":", "3", "0">>
T0945 == <<"0", "9", ":", "4", "5">>
T1000 == <<"1", "0", ":", "0", "0">>
T1015 == <<"1", "0", ":", "1", "5">>
T1030 == <<"1", "0", ":", "3", "0">>
T1100 == <<"1", "1", ":", "0", "0">>
T1810 == <<"1", "8", ":", "1", "0">>
T1920 == <<"1", "9", ":", "2", "0">>
T2200 == <<"2", "2", ":", "0", "0">>
T2359 == <<"2", "3", ":", "5", "9">>

IdSeq == <<<<"a">>, <<"b">>, <<"c">>, <<"d">>, <<"e">>>>

Shape(name, start, end) == [name |-> name, start |-> start, end |-> end]

\* a ClassItem
Class(id, sh, day) ==
  [id |-> id, name |-> sh.name, color |-> "#3b82f6", day |-> day,
   start |-> sh.start, end |-> sh.end]

\* the lists of at most n classes with shapes from S on days from D; the
\* identifiers are distinct, as uid() draws them
ClassLists(S, D, n) ==
  UNION {{[i \in 1..k |-> Class(IdSeq[i], f[i][1], f[i][2])] : f \in [1..k -> S \X D]} : k \in 0..n}

\* the schedule: Math and Lit overlap, Zero is a degenerate entry (end = start)
ScheduleShapes == {Shape(NameMath, T0900, T1000), Shape(NameLit, T0930, T1030), Shape(NameZero, T1000, T1000)}
ScheduleDays == {0, 2, 6}
\* local wall-clock readings on Sunday 2024-03-03 and Monday 2024-03-04
ScheduleDay0 == DaysFromCivil(2024, 3, 3)
ScheduleTimes == {8 * 60, 9 * 60, 9 * 60 + 40, 9 * 60 + 45, 10 * 60}
ScheduleClock == {(ScheduleDay0 + d) * MinutesPerDay + m - tz : d \in 0..1, m \in ScheduleTimes}

\* the timetable: the chain Math, Lit, PE; Zero touches Math's end; Early and
\* Night reach beyond 06:00 and 23:00, Eve ends inside the 20th hour
TimetableShapes ==
  {Shape(NameMath, T0900, T1000), Shape(NameLit, T0930, T1030), Shape(NamePE, T1015, T1100),
   Shape(NameZero, T1000, T1000), Shape(NameEarly, T0530, T0630), Shape(NameNight, T2200, T2359),
   Shape(NameEve, T1810, T1920)}
TimetableDays == {0, 1}

\* the grid: entries before 06:00 and up to 23:59, an entry ending inside the
\* 20th hour, two that overlap, and two short ones five minutes apart
T0915 == <<"0", "9", ":", "1", "5">>
T0920 == <<"0", "9", ":", "2", "0">>
T0940 == <<"0", "9", ":", "4", "0">>
NameQuiz == <<"Q", "u", "i", "z">>
NameLab == <<"L", "a", "b">>
GridShapes ==
  {Shape(NameMath, T0900, T1000), Shape(NameLit, T0930, T1030), Shape(NameEarly, T0530, T0630),
   Shape(NameNight, T2200, T2359), Shape(NameEve, T1810, T1920), Shape(NameQuiz, T0900, T0915),
   Shape(NameLab, T0920, T0940)}
GridDays == {0}

\* the study log: UTC instants from Tuesday 2024-02-27 on, early, at noon and
\* late in the UTC day
StudyDay0 == DaysFromCivil(2024, 2, 27)
StudyTimes == {60, 12 * 60, 22 * 60}
StudyClock == {(StudyDay0 + d) * MinutesPerDay + m : d \in 0..(MaxDays - 1), m \in StudyTimes}
\* the minutes given to setTodayMinutes, in half minutes: -30, 90, 90.5, 1500
StudyInputs == {-60, 180, 181, 3000}

TzOffsets == {-300, 0, 180}

\* the class modal: an empty and a blank name, a cleared time field (the value
\* of an <input type="time"> without a time is ""), and the identifiers uid()
\* draws from
NameBlank == <<" ">>
TimeCleared == <<>>
ModalNames == {<<>>, NameBlank, NameMath}
ModalDays == {2}
ModalStarts == {T0900}
ModalEnds == {TimeCleared, T0900, T1000}
ModalIds == {<<"a">>, <<"b">>}

\* the backup files and stored blobs: the date key of day number d, a class, a
\* to-do item and study logs; LogHigh and LogNegative hold minutes outside
\* [0, 1440], as a file written or edited outside the application may
KeyOfDay(d) == dateKey(d * MinutesPerDay)
FileClasses == <<Class(<<"d">>, Shape(NameLit, T0930, T1030), 2)>>
FileTodos == <<[id |-> <<"e">>, text |-> <<"R", "e", "a", "d">>, done |-> TRUE]>>
FileLog == KeyOfDay(StudyDay0 - 1) :> Num(45)
LogHigh == KeyOfDay(StudyDay0) :> Num(2000)
LogNegative == KeyOfDay(StudyDay0) :> Num(-5)
FileGoal == Num(240)

\* the object of a backup file with the fields of the set P present
DocOf(P, c, t, l, g, d) ==
  [classes |-> IF "classes" \in P THEN <<c>> ELSE <<>>,
   todos |-> IF "todos" \in P THEN <<t>> ELSE <<>>,
   studyLog |-> IF "studyLog" \in P THEN <<l>> ELSE <<>>,
   goal |-> IF "goal" \in P THEN <<g>> ELSE <<>>,
   dark |-> IF "dark" \in P THEN <<d>> ELSE <<>>,
   exportDate |-> <<>>]

SnapshotFields == {"classes", "todos", "studyLog", "goal", "dark"}

\* a snapshot file for every combination of present fields
SnapshotFiles ==
  {JSONstringify(DocOf(P, FileClasses, FileTodos, FileLog, FileGoal, TRUE)) : P \in SUBSET SnapshotFields}

\* files whose study log holds minutes outside [0, 1440], and a file whose goal is 0
OddFiles ==
  {JSONstringify(DocOf({"studyLog"}, <<>>, <<>>, LogHigh, Num(0), FALSE)),
   JSONstringify(DocOf({"studyLog"}, <<>>, <<>>, LogNegative, Num(0), FALSE)),
   JSONstringify(DocOf({"goal", "dark"}, <<>>, <<>>, EmptyLog, Num(0), TRUE))}

\* files that are not JSON
UnreadableFiles == {EmptyText, Garbled}

\* the stores the backup scenario starts on: empty, or written by an earlier run
StoredClasses == <<Class(<<"a">>, Shape(NameMath, T0900, T1000), 0)>>
StoredTodos == <<[id |-> <<"b">>, text |-> <<"B", "u", "y">>, done |-> FALSE]>>
StoredLog == KeyOfDay(StudyDay0 - 2) :> Num(30)
BackupStores ==
  {NoBlobs,
   [NoBlobs EXCEPT !.classes = JSONstringify(StoredClasses), !.todos = JSONstringify(StoredTodos),
                   !.studyLog = JSONstringify(StoredLog), !.tab = JSONstringify("timetable")]}
\* the blobs found under a key at startup: none, the empty string, a text
\* that is not JSON, the JSON text of a value
BlobsOf(v) == {Missing, EmptyText, Garbled, JSONstringify(v)}
StartupStores ==
  {[NoBlobs EXCEPT !.classes = c, !.todos = t, !.studyLog = l] :
     c \in BlobsOf(StoredClasses), t \in BlobsOf(StoredTodos), l \in BlobsOf(StoredLog)}
\* the values of a time input: the zero-padded "HH:MM" of every minute of a day
TimeText(m) ==
  <<DigitChar(m \div 600), DigitChar((m \div 60) % 10), ":", DigitChar((m % 60) \div 10),
    DigitChar(m % 10)>>
DayTimes == {TimeText(m) : m \in 0..(MinutesPerDay - 1)}

\* persistence: a to-do text, a snapshot file with the three collections, and
\* a file whose study log holds the number literal 1e999, which JSON.parse
\* reads as Infinity
TodoText == <<"B", "u", "y">>
LogOverflow == KeyOfDay(StudyDay0 - 1) :> Infinity
PersistFiles ==
  {JSONstringify(DocOf({"classes", "todos", "studyLog"}, FileClasses, FileTodos, FileLog, Num(0), FALSE)),
   [kind |-> "json", val |-> DocOf({"studyLog"}, <<>>, <<>>, LogOverflow, Num(0), FALSE)]}
PersistInputs == {181}
PersistIds == {<<"a">>}
\* the minutes given to setTodayMinutes in the backup scenario, in half minutes
BackupInputs == {181, 3000}

\* the history page: a log with entries inside and outside every window, and
\* a log of negative minutes on every day of the 7-day windows, which only an
\* import can install
HistoryLog ==
  (KeyOfDay(StudyDay0 - 100) :> Num(999)) @@ (KeyOfDay(StudyDay0 - 40) :> Num(15)) @@
  (KeyOfDay(StudyDay0 - 8) :> Num(120)) @@ (KeyOfDay(StudyDay0 - 1) :> Num(30)) @@
  (KeyOfDay(StudyDay0) :> Num(90)) @@ (KeyOfDay(StudyDay0 + 1) :> Num(60))
NegativeWeek == [k \in {KeyOfDay(StudyDay0 + d) : d \in (-7)..MaxDays} |-> Num(-5)]
HistoryFiles ==
  {JSONstringify(DocOf({"studyLog"}, <<>>, <<>>, l, Num(0), FALSE)) : l \in {HistoryLog, NegativeWeek}}
Periods == {"7days", "1month", "3months"}

----------------------------------------------------------------------------
(* Operations.  A state setter that changes state re-renders the root      *)
(* component, which samples the clock anew (const now = new Date()); the   *)
(* save effect of useLocal then writes the changed state under its key.    *)
(* Every handler records its name and the alert it raised, if any.         *)

\* the wall clock advances to a later instant of the set S; nothing re-renders
Tick(S) ==
  /\ \E t \in S : t > now /\ now' = t
  /\ UNCHANGED <<classes, todos, studyLog, goal, dark, tab, ttFull, showClassModal,
                 showSettingsModal, editing, tmp, history, alertMsg, handler, store, loaded,
                 backup, rNow, tz>>

\* onClick={() => setDark(!dark)}
ToggleDark ==
  /\ dark' = ~dark
  /\ store' = [store EXCEPT !.dark = JSONstringify(~dark)]
  /\ rNow' = now
  /\ handler' = "setDark"
  /\ alertMsg' = NoAlert
  /\ UNCHANGED <<classes, todos, studyLog, goal, tab, ttFull, showClassModal,
                 showSettingsModal, editing, tmp, history, loaded, backup, now, tz>>

\* onToggleFull={() => setTtFull(v => !v)}
ToggleFull ==
  /\ ttFull' = ~ttFull
  /\ rNow' = now
  /\ handler' = "setTtFull"
  /\ alertMsg' = NoAlert
  /\ UNCHANGED <<classes, todos, studyLog, goal, dark, tab, showClassModal, showSettingsModal,
                 editing, tmp, history, store, loaded, backup, now, tz>>

\* arr.filter(c => c.id !== id)
RECURSIVE FilterNotId(_, _)
FilterNotId(arr, id) ==
  IF arr = <<>> THEN <<>>
  ELSE IF Head(arr).id # id THEN <<Head(arr)>> \o FilterNotId(Tail(arr), id)
  ELSE FilterNotId(Tail(arr), id)

\* const deleteClass = (id) => setClasses(prev => prev.filter(c => c.id !== id));
\* the buttons that call it belong to the classes on display
deleteClass(id) ==
  /\ \E i \in 1..Len(classes) : classes[i].id = id
  /\ classes' = FilterNotId(classes, id)
  /\ store' = [store EXCEPT !.classes = JSONstringify(FilterNotId(classes, id))]
  /\ rNow' = now
  /\ handler' = "deleteClass"
  /\ alertMsg' = NoAlert
  /\ UNCHANGED <<todos, studyLog, goal, dark, tab, ttFull, showClassModal, showSettingsModal,
                 editing, tmp, history, loaded, backup, now, tz>>

\* const setTodayMinutes = (m) => setStudyLog(prev => ({ ...prev, [todayKey]: ... })),
\* m = h/2; todayKey is the key of the render that created the handler; a
\* mounted StudyHistory recomputes its historyData memo for the new studyLog
setTodayMinutes(h) ==
  /\ studyLog' = Put(studyLog, todayKey, ClampedMinutes(h))
  /\ store' = [store EXCEPT !.studyLog = JSONstringify(JSONLog(Put(studyLog, todayKey, ClampedMinutes(h))))]
  /\ history' = Remount(history, now)
  /\ rNow' = now
  /\ handler' = "setTodayMinutes"
  /\ alertMsg' = NoAlert
  /\ UNCHANGED <<classes, todos, goal, dark, tab, ttFull, showClassModal, showSettingsModal,
                 editing, tmp, loaded, backup, now, tz>>

\* the identifiers in use; uid() draws 7 random base-36 characters, which is
\* modelled as drawing an identifier not in use
UsedIds == {classes[i].id : i \in 1..Len(classes)} \cup {todos[i].id : i \in 1..Len(todos)}

\* const addTodo = (text) => setTodos(prev => [...prev, { id: uid(), text, done: false }])
addTodo(text) ==
  /\ Len(todos) < MaxTodos
  /\ todos' = LET id == CHOOSE x \in Ids : x \notin UsedIds
     IN Append(todos, [id |-> id, text |-> text, done |-> FALSE])
  /\ store' = [store EXCEPT !.todos = JSONstringify(todos')]
  /\ rNow' = now
  /\ handler' = "addTodo"
  /\ alertMsg' = NoAlert
  /\ UNCHANGED <<classes, studyLog, goal, dark, tab, ttFull, showClassModal, showSettingsModal,
                 editing, tmp, history, loaded, backup, now, tz>>

\* const toggleTodo = (id) => setTodos(prev => prev.map(t => (t.id === id ? { ...t, done: !t.done } : t)))
\* the checkbox that calls it belongs to a to-do on display
toggleTodo(id) ==
  /\ \E i \in 1..Len(todos) : todos[i].id = id
  /\ todos' = [i \in 1..Len(todos) |->
                 IF todos[i].id = id THEN [todos[i] EXCEPT !.done = ~todos[i].done] ELSE todos[i]]
  /\ store' = [store EXCEPT !.todos = JSONstringify(todos')]
  /\ rNow' = now
  /\ handler' = "toggleTodo"
  /\ alertMsg' = NoAlert
  /\ UNCHANGED <<classes, studyLog, goal, dark, tab, ttFull, showClassModal, showSettingsModal,
                 editing, tmp, history, loaded, backup, now, tz>>

\* const removeTodo = (id) => setTodos(prev => prev.filter(t => t.id !== id))
removeTodo(id) ==
  /\ \E i \in 1..Len(todos) : todos[i].id = id
  /\ todos' = FilterNotId(todos, id)
  /\ store' = [store EXCEPT !.todos = JSONstringify(todos')]
  /\ rNow' = now
  /\ handler' = "removeTodo"
  /\ alertMsg' = NoAlert
  /\ UNCHANGED <<classes, studyLog, goal, dark, tab, ttFull, showClassModal, showSettingsModal,
                 editing, tmp, history, loaded, backup, now, tz>>

\* openCreate without setEditing(null): the modal opens in the mode of the
\* last edit
OpenCreateKeepEditing ==
  /\ tmp' = BlankClass
  /\ showClassModal' = TRUE
  /\ rNow' = now
  /\ handler' = "openCreate"
  /\ alertMsg' = NoAlert
  /\ UNCHANGED <<classes, todos, studyLog, goal, dark, tab, ttFull, showSettingsModal, editing,
                 history, store, loaded, backup, now, tz>>

\* const openCreate = () => { setEditing(null); setTmp({...}); setShowClassModal(true); }
openCreate ==
  /\ editing' = Null
  /\ tmp' = BlankClass
  /\ showClassModal' = TRUE
  /\ rNow' = now
  /\ handler' = "openCreate"
  /\ alertMsg' = NoAlert
  /\ UNCHANGED <<classes, todos, studyLog, goal, dark, tab, ttFull, showSettingsModal, history,
                 store, loaded, backup, now, tz>>

\* const openEdit = (cls) => { setEditing(cls); setTmp({ ...cls }); setShowClassModal(true); }
\* cls is one of the classes on display
openEdit(cls) ==
  /\ \E i \in 1..Len(classes) : classes[i] = cls
  /\ editing' = Some(cls)
  /\ tmp' = cls
  /\ showClassModal' = TRUE
  /\ rNow' = now
  /\ handler' = "openEdit"
  /\ alertMsg' = NoAlert
  /\ UNCHANGED <<classes, todos, studyLog, goal, dark, tab, ttFull, showSettingsModal, history,
                 store, loaded, backup, now, tz>>

\* onChange={e => setTmp(v => ({ ...v, name: e.target.value }))}
setTmpName(x) ==
  /\ showClassModal
  /\ x # tmp.name
  /\ tmp' = [tmp EXCEPT !.name = x]
  /\ rNow' = now
  /\ handler' = "setTmp"
  /\ alertMsg' = NoAlert
  /\ UNCHANGED <<classes, todos, studyLog, goal, dark, tab, ttFull, showClassModal,
                 showSettingsModal, editing, history, store, loaded, backup, now, tz>>

\* onChange={e => setTmp(v => ({ ...v, day: Number(e.target.value) }))}
setTmpDay(x) ==
  /\ showClassModal
  /\ x # tmp.day
  /\ tmp' = [tmp EXCEPT !.day = x]
  /\ rNow' = now
  /\ handler' = "setTmp"
  /\ alertMsg' = NoAlert
  /\ UNCHANGED <<classes, todos, studyLog, goal, dark, tab, ttFull, showClassModal,
                 showSettingsModal, editing, history, store, loaded, backup, now, tz>>

\* onChange={e => setTmp(v => ({ ...v, start: e.target.value }))} of the time input
setTmpStart(x) ==
  /\ showClassModal
  /\ x # tmp.start
  /\ tmp' = [tmp EXCEPT !.start = x]
  /\ rNow' = now
  /\ handler' = "setTmp"
  /\ alertMsg' = NoAlert
  /\ UNCHANGED <<classes, todos, studyLog, goal, dark, tab, ttFull, showClassModal,
                 showSettingsModal, editing, history, store, loaded, backup, now, tz>>

\* onChange={e => setTmp(v => ({ ...v, end: e.target.value }))} of the time input
setTmpEnd(x) ==
  /\ showClassModal
  /\ x # tmp.end
  /\ tmp' = [tmp EXCEPT !.end = x]
  /\ rNow' = now
  /\ handler' = "setTmp"
  /\ alertMsg' = NoAlert
  /\ UNCHANGED <<classes, todos, studyLog, goal, dark, tab, ttFull, showClassModal,
                 showSettingsModal, editing, history, store, loaded, backup, now, tz>>

\* onClose, the X button and the cancel button: setShowClassModal(false)
closeClassModal ==
  /\ showClassModal
  /\ showClassModal' = FALSE
  /\ rNow' = now
  /\ handler' = "closeClassModal"
  /\ alertMsg' = NoAlert
  /\ UNCHANGED <<classes, todos, studyLog, goal, dark, tab, ttFull, showSettingsModal, editing,
                 tmp, history, store, loaded, backup, now, tz>>
\* s.trim(): s without its leading and trailing blanks
RECURSIVE TrimStart(_)
TrimStart(s) == IF s # <<>> /\ Head(s) = " " THEN TrimStart(Tail(s)) ELSE s

RECURSIVE TrimEnd(_)
TrimEnd(s) == IF s # <<>> /\ s[Len(s)] = " " THEN TrimEnd(SubSeq(s, 1, Len(s) - 1)) ELSE s

Trim(s) == TrimEnd(TrimStart(s))

\* prev.map with every entry replaced, whatever its id
MapReplaceEvery(arr, id, item) == [i \in 1..Len(arr) |-> item]

\* prev.map(c => (c.id === id ? item : c))
MapReplace(arr, id, item) == [i \in 1..Len(arr) |-> IF arr[i].id = id THEN item ELSE arr[i]]

\* the name check of saveClass: if (!tmp.name.trim()) return;
NameMissing == Trim(tmp.name) = <<>>

\* the time check of saveClass: toMin(tmp.end) <= toMin(tmp.start)
EndNotAfterStart == JsLe(toMin(tmp.end), toMin(tmp.start))

\* the result of saveClass's setClasses for the identifier id that uid() drew
SavedClasses(id) ==
  IF editing # Null
    THEN MapReplace(classes, editing.val[1].id, [tmp EXCEPT !.id = editing.val[1].id])
    ELSE Append(classes, [tmp EXCEPT !.id = id])

\* const saveClass = () => { ... }: the save button of the class modal, uid()
\* drawing the new identifier from uids.  A rejected call sets no state, so
\* nothing re-renders
saveClassDrawing(uids) ==
  /\ showClassModal
  /\ handler' = "saveClass"
  /\ IF NameMissing
       THEN /\ alertMsg' = NoAlert
            /\ UNCHANGED <<classes, showClassModal, store, rNow>>
       ELSE IF EndNotAfterStart
         THEN /\ alertMsg' = AlertEndAfterStart
              /\ UNCHANGED <<classes, showClassModal, store, rNow>>
         ELSE /\ IF editing # Null
                   THEN classes' = SavedClasses(<<>>)
                   ELSE \E id \in uids : classes' = SavedClasses(id)
              /\ store' = [store EXCEPT !.classes = JSONstringify(classes')]
              /\ showClassModal' = FALSE
              /\ rNow' = now
              /\ alertMsg' = NoAlert
  /\ UNCHANGED <<todos, studyLog, goal, dark, tab, ttFull, showSettingsModal, editing, tmp,
                 history, loaded, backup, now, tz>>

\* uid() is taken to return an identifier not in use
saveClass == saveClassDrawing(Ids \ UsedIds)

\* onClick={() => setTab(t)}; StudyHistory is mounted while tab is "history", and
\* mounting it sets period to "7days" and runs the historyData memo
setTab(t) ==
  /\ t # tab
  /\ tab' = t
  /\ store' = [store EXCEPT !.tab = JSONstringify(t)]
  /\ history' = IF t = "history" THEN Mounted("7days", now) ELSE <<>>
  /\ rNow' = now
  /\ handler' = "setTab"
  /\ alertMsg' = NoAlert
  /\ UNCHANGED <<classes, todos, studyLog, goal, dark, ttFull, showClassModal,
                 showSettingsModal, editing, tmp, loaded, backup, now, tz>>

\* onClick={() => setPeriod(p)} of StudyHistory: the memo runs again (deps
\* [studyLog, period]); the root component does not re-render
setPeriod(p) ==
  /\ history # <<>>
  /\ p # history[1].period
  /\ history' = Mounted(p, now)
  /\ handler' = "setPeriod"
  /\ alertMsg' = NoAlert
  /\ UNCHANGED <<classes, todos, studyLog, goal, dark, tab, ttFull, showClassModal,
                 showSettingsModal, editing, tmp, store, loaded, backup, now, rNow, tz>>

\* onClick={() => setShowSettingsModal(true)}
openSettings ==
  /\ ~showSettingsModal
  /\ showSettingsModal' = TRUE
  /\ rNow' = now
  /\ handler' = "openSettings"
  /\ alertMsg' = NoAlert
  /\ UNCHANGED <<classes, todos, studyLog, goal, dark, tab, ttFull, showClassModal, editing,
                 tmp, history, store, loaded, backup, now, tz>>

\* onClose and the X button of the settings modal: setShowSettingsModal(false)
closeSettings ==
  /\ showSettingsModal
  /\ showSettingsModal' = FALSE
  /\ rNow' = now
  /\ handler' = "closeSettings"
  /\ alertMsg' = NoAlert
  /\ UNCHANGED <<classes, todos, studyLog, goal, dark, tab, ttFull, showClassModal, editing,
                 tmp, history, store, loaded, backup, now, tz>>

\* the snapshot object of the export handler
ExportData ==
  [classes |-> <<classes>>, todos |-> <<todos>>, studyLog |-> <<studyLog>>, goal |-> <<goal>>,
   dark |-> <<dark>>, exportDate |-> <<toISOString(now)>>]

\* the export button: JSON.stringify(data, null, 2) is downloaded as a file
exportData ==
  /\ showSettingsModal
  /\ backup' = JSONstringify([ExportData EXCEPT !.studyLog = <<JSONLog(studyLog)>>])
  /\ handler' = "export"
  /\ alertMsg' = NoAlert
  /\ UNCHANGED <<classes, todos, studyLog, goal, dark, tab, ttFull, showClassModal,
                 showSettingsModal, editing, tmp, history, store, loaded, now, rNow, tz>>

\* the truthiness of a number: if (data.goal)
TruthyNumber(n) == ~n.nan /\ n.v # 0

\* reader.onload of the import handler for a file whose content is the text
\* file.  A field of the parsed object is <<>> when absent and <<v>> when
\* present.  The file declares no setGoal (line 111 binds only goal), so the
\* call setGoal(data.goal) raises a ReferenceError, which the catch reports;
\* the setters called before it have taken effect
importFile(file) ==
  /\ showSettingsModal
  /\ LET parsed == JSONparse(file)
         data == parsed.val
         setsClasses == ~parsed.throws /\ data.classes # <<>>
         setsTodos == ~parsed.throws /\ data.todos # <<>>
         setsLog == ~parsed.throws /\ data.studyLog # <<>>
         callsSetGoal == ~parsed.throws /\ data.goal # <<>> /\ TruthyNumber(data.goal[1])
         thrown == parsed.throws \/ callsSetGoal
         setsDark == ~thrown /\ data.dark # <<>>
     IN /\ classes' = IF setsClasses THEN data.classes[1] ELSE classes
        /\ todos' = IF setsTodos THEN data.todos[1] ELSE todos
        /\ studyLog' = IF setsLog THEN data.studyLog[1] ELSE studyLog
        /\ dark' = IF setsDark THEN data.dark[1] ELSE dark
        /\ alertMsg' = IF thrown THEN AlertUnreadable ELSE AlertImported
        /\ showSettingsModal' = thrown
        /\ store' = [store EXCEPT !.classes = IF setsClasses THEN JSONstringify(classes') ELSE @,
                                  !.todos = IF setsTodos THEN JSONstringify(todos') ELSE @,
                                  !.studyLog = IF setsLog THEN JSONstringify(JSONLog(studyLog')) ELSE @,
                                  !.dark = IF setsDark THEN JSONstringify(dark') ELSE @]
        /\ history' = IF setsLog THEN Remount(history, now) ELSE history
        /\ rNow' = IF setsClasses \/ setsTodos \/ setsLog \/ ~thrown THEN now ELSE rNow
  /\ handler' = "import"
  /\ UNCHANGED <<goal, tab, ttFull, showClassModal, editing, tmp, loaded, backup, now, tz>>

\* the page is loaded anew: every useLocal state is initialized from its blob
\* and every useState state from its default; the save effects then write each
\* state under its key
Reload ==
  /\ loaded' = Kinds(store)
  /\ classes' = useLocal(store.classes, <<>>)
  /\ todos' = useLocal(store.todos, <<>>)
  /\ studyLog' = useLocal(store.studyLog, EmptyLog)
  /\ goal' = useLocal(store.goal, Num(300))
  /\ dark' = useLocal(store.dark, FALSE)
  /\ tab' = useLocal(store.tab, "overview")
  /\ ttFull' = FALSE
  /\ showClassModal' = FALSE
  /\ showSettingsModal' = FALSE
  /\ editing' = Null
  /\ tmp' = BlankClass
  /\ history' = IF tab' = "history" THEN Mounted("7days", now) ELSE <<>>
  /\ rNow' = now
  /\ alertMsg' = NoAlert
  /\ handler' = "mount"
  /\ store' = Saved(classes', todos', studyLog', goal', dark', tab')
  /\ UNCHANGED <<backup, now, tz>>

\* the blob under a key is replaced from outside the page (another tab, the
\* browser's storage tools); the page learns of it at its next load
StorageWrite(key, blob) ==
  /\ store[key] # blob
  /\ store' = [store EXCEPT ![key] = blob]
  /\ UNCHANGED <<classes, todos, studyLog, goal, dark, tab, ttFull, showClassModal,
                 showSettingsModal, editing, tmp, history, alertMsg, loaded, handler, backup,
                 now, rNow, tz>>

\* the state after the first load on a store holding the blobs r
Startup(r) ==
  /\ loaded = Kinds(r)
  /\ classes = useLocal(r.classes, <<>>)
  /\ todos = useLocal(r.todos, <<>>)
  /\ studyLog = useLocal(r.studyLog, EmptyLog)
  /\ goal = useLocal(r.goal, Num(300))
  /\ dark = useLocal(r.dark, FALSE)
  /\ tab = useLocal(r.tab, "overview")
  /\ ttFull = FALSE
  /\ showClassModal = FALSE
  /\ showSettingsModal = FALSE
  /\ editing = Null
  /\ tmp = BlankClass
  /\ history = IF tab = "history" THEN Mounted("7days", now) ELSE <<>>
  /\ alertMsg = NoAlert
  /\ handler = "mount"
  /\ store = Saved(classes, todos, studyLog, goal, dark, tab)
  /\ backup = Missing
  /\ rNow = now

----------------------------------------------------------------------------
(* Specifications *)

\* the application loaded on an empty store; the study log is kept by hand
Init ==
  /\ tz \in TzOffsets
  /\ now \in {t \in StudyClock : t < (StudyDay0 + 1) * MinutesPerDay}
  /\ Startup(NoBlobs)

Next ==
  \/ Tick(StudyClock)
  \/ ToggleDark
  \/ \E h \in StudyInputs : setTodayMinutes(h)

Spec == Init /\ [][Next]_vars

\* the schedule queries over every stored class list and clock reading of the
\* bounds
InitSchedule ==
  /\ tz \in TzOffsets
  /\ now \in ScheduleClock
  /\ \E c \in ClassLists(ScheduleShapes, ScheduleDays, MaxClasses) :
       Startup([NoBlobs EXCEPT !.classes = JSONstringify(c)])

NextSchedule ==
  \/ Tick(ScheduleClock)
  \/ ToggleDark
  \/ \E id \in Ids : deleteClass(id)

SpecSchedule == InitSchedule /\ [][NextSchedule]_vars

\* the timetable page over every stored class list of the bounds
InitTimetable ==
  /\ tz = 0
  /\ now = ScheduleDay0 * MinutesPerDay + 9 * 60
  /\ \E c \in ClassLists(TimetableShapes, TimetableDays, MaxDayClasses) :
       Startup([NoBlobs EXCEPT !.classes = JSONstringify(c), !.tab = JSONstringify("timetable")])

NextTimetable ==
  \/ ToggleFull
  \/ \E id \in Ids : deleteClass(id)

SpecTimetable == InitTimetable /\ [][NextTimetable]_vars

\* the timetable page over the class lists of one day's column
InitGrid ==
  /\ tz = 0
  /\ now = ScheduleDay0 * MinutesPerDay + 9 * 60
  /\ \E c \in ClassLists(GridShapes, GridDays, MaxDayClasses) :
       Startup([NoBlobs EXCEPT !.classes = JSONstringify(c), !.tab = JSONstringify("timetable")])

NextGrid ==
  \/ ToggleFull
  \/ \E i \in 1..Len(classes) : deleteClass(classes[i].id)

SpecGrid == InitGrid /\ [][NextGrid]_vars

\* the class modal: classes are created, edited and deleted from an empty store
InitModal ==
  /\ tz = 0
  /\ now = StudyDay0 * MinutesPerDay + 12 * 60
  /\ Startup(NoBlobs)

NextModal ==
  \/ openCreate
  \/ \E i \in 1..Len(classes) : openEdit(classes[i])
  \/ \E x \in ModalNames : setTmpName(x)
  \/ \E x \in ModalDays : setTmpDay(x)
  \/ \E x \in ModalStarts : setTmpStart(x)
  \/ \E x \in ModalEnds : setTmpEnd(x)
  \/ closeClassModal
  \/ saveClassDrawing(ModalIds \ UsedIds)
  \/ \E i \in 1..Len(classes) : deleteClass(classes[i].id)

SpecModal == InitModal /\ [][NextModal]_vars

\* the start field of the class modal takes every time of day
InitTimes ==
  /\ tz = 0
  /\ now = StudyDay0 * MinutesPerDay + 12 * 60
  /\ Startup(NoBlobs)

NextTimes ==
  \/ openCreate
  \/ \E x \in DayTimes : setTmpStart(x)
  \/ closeClassModal

SpecTimes == InitTimes /\ [][NextTimes]_vars

\* persistence: classes, to-dos and study log are changed by hand and by
\* import, and the page is reloaded
InitPersist ==
  /\ tz = 0
  /\ now = StudyDay0 * MinutesPerDay + 12 * 60
  /\ Startup(NoBlobs)

NextPersist ==
  \/ openCreate
  \/ setTmpName(NameMath)
  \/ saveClassDrawing(PersistIds \ UsedIds)
  \/ \E i \in 1..Len(classes) : deleteClass(classes[i].id)
  \/ addTodo(TodoText)
  \/ \E i \in 1..Len(todos) : toggleTodo(todos[i].id)
  \/ \E i \in 1..Len(todos) : removeTodo(todos[i].id)
  \/ \E h \in PersistInputs : setTodayMinutes(h)
  \/ openSettings
  \/ \E f \in PersistFiles : importFile(f)
  \/ Reload

SpecPersist == InitPersist /\ [][NextPersist]_vars

\* backup and restart: export, import of every file of the bounds, reload
InitBackup ==
  /\ tz = 0
  /\ now = StudyDay0 * MinutesPerDay + 12 * 60
  /\ \E r \in BackupStores : Startup(r)

NextBackup ==
  \/ openSettings
  \/ closeSettings
  \/ exportData
  \/ \E f \in SnapshotFiles \cup OddFiles \cup UnreadableFiles : importFile(f)
  \/ backup.kind # "missing" /\ importFile(backup)
  \/ Reload
  \/ \E h \in BackupInputs : setTodayMinutes(h)

SpecBackup == InitBackup /\ [][NextBackup]_vars

\* startup: the page is loaded on stores holding every kind of blob
InitStartup ==
  /\ tz = 0
  /\ now = StudyDay0 * MinutesPerDay + 12 * 60
  /\ \E r \in StartupStores : Startup(r)

NextStartup ==
  \/ \E c \in BlobsOf(StoredClasses) : StorageWrite("classes", c)
  \/ \E t \in BlobsOf(StoredTodos) : StorageWrite("todos", t)
  \/ \E l \in BlobsOf(StoredLog) : StorageWrite("studyLog", l)
  \/ Reload

SpecStartup == InitStartup /\ [][NextStartup]_vars

\* the history page on display, the clock running over midnight
InitHistory ==
  /\ tz \in TzOffsets
  /\ now \in {t \in StudyClock : t < (StudyDay0 + 1) * MinutesPerDay}
  /\ \E l \in {EmptyLog, HistoryLog} :
       Startup([NoBlobs EXCEPT !.studyLog = JSONstringify(l), !.tab = JSONstringify("history")])

NextHistory ==
  \/ Tick(StudyClock)
  \/ \E p \in Periods : setPeriod(p)
  \/ \E t \in {"timetable", "history"} : setTab(t)
  \/ openSettings
  \/ \E f \in HistoryFiles : importFile(f)

SpecHistory == InitHistory /\ [][NextHistory]_vars

----------------------------------------------------------------------------
(* Reference notions the properties are stated in *)

\* the minute of day a zero-padded "HH:MM" string denotes
RefMinutes(s) ==
  (DigitVal(s[1]) * 10 + DigitVal(s[2])) * 60 + DigitVal(s[4]) * 10 + DigitVal(s[5])

\* the local weekday (Monday = 0) and minute of day of the rendered instant
RefWeekday == ((rNow + tz) \div MinutesPerDay + 3) % 7
RefMinuteOfDay == (rNow + tz) % MinutesPerDay

\* positions of the class list: today's, tomorrow's, those whose [start, end)
\* holds the current minute, those that start later today
RefToday == {i \in 1..Len(classes) : classes[i].day = RefWeekday}
RefTomorrow == {i \in 1..Len(classes) : classes[i].day = (RefWeekday + 1) % 7}
RefContaining ==
  {i \in RefToday : RefMinutes(classes[i].start) <= RefMinuteOfDay
                     /\ RefMinuteOfDay < RefMinutes(classes[i].end)}
RefUpcoming == {i \in RefToday : RefMinutes(classes[i].start) > RefMinuteOfDay}

\* r is the class at a position of S with the earliest start
IsEarliestOf(r, S) ==
  /\ r.tag = "class"
  /\ \E i \in S : /\ r.val[1] = classes[i]
                  /\ \A j \in S : RefMinutes(classes[i].start) <= RefMinutes(classes[j].start)

----------------------------------------------------------------------------
(* Properties *)

\* C1: currentClass is the earliest-starting entry of today whose half-open
\* interval [start, end) contains the current minute of day, and undefined
\* when there is none
C1_CurrentClass ==
  IF RefContaining = {} THEN current = Undefined ELSE IsEarliestOf(current, RefContaining)

\* two entries contain now, the later-starting one comes first in the list,
\* and the earlier-starting one is current
C1_Witness ==
  \E i, j \in RefContaining :
    /\ i < j
    /\ RefMinutes(classes[j].start) < RefMinutes(classes[i].start)
    /\ current = Some(classes[j])

\* C2: nextClass is the earliest entry of today that starts strictly after
\* now; failing that the earliest entry of tomorrow (Sunday wraps to Monday);
\* failing that null, whatever later days hold
C2_NextClass ==
  IF RefUpcoming # {} THEN IsEarliestOf(next, RefUpcoming)
  ELSE IF RefTomorrow # {} THEN IsEarliestOf(next, RefTomorrow)
  ELSE next = Null

\* on a Sunday with nothing left today, next is a Monday class
C2_Witness ==
  /\ RefWeekday = 6
  /\ RefUpcoming = {}
  /\ next.tag = "class"
  /\ next.val[1].day = 0

\* C3: progress is 0 without a current class or when end = start; otherwise
\* it is an integer nearest to 100 * clamp(now - start, 0, end - start) /
\* (end - start); it always lies in 0..100
C3_Progress ==
  /\ ~progress.nan
  /\ progress.v \in 0..100
  /\ current.tag # "class" => progress.v = 0
  /\ current.tag = "class" =>
       LET c == current.val[1]
           total == RefMinutes(c.end) - RefMinutes(c.start)
           raw == RefMinuteOfDay - RefMinutes(c.start)
           elapsed == IF raw < 0 THEN 0 ELSE IF raw > total THEN total ELSE raw
           diff == 100 * elapsed - progress.v * total
       IN IF total = 0 THEN progress.v = 0
          ELSE 2 * (IF diff < 0 THEN -diff ELSE diff) <= total

\* a class is current and the percentage is not a whole number before rounding
C3_Witness ==
  /\ current.tag = "class"
  /\ LET c == current.val[1]
         total == RefMinutes(c.end) - RefMinutes(c.start)
     IN total > 0 /\ (100 * (RefMinuteOfDay - RefMinutes(c.start))) % total # 0

\* the case of C4: Monday 09:45, and Monday's classes are Math 09:00-10:00
C4_Case ==
  /\ RefWeekday = 0
  /\ RefMinuteOfDay = 9 * 60 + 45
  /\ RefToday # {}
  /\ \A i \in RefToday :
       classes[i].name = NameMath /\ classes[i].start = T0900 /\ classes[i].end = T1000

\* C4 as stated: at 09:45 on a Monday with Math 09:00-10:00, currentClass is
\* Math and the progress is 45
C4_Original ==
  C4_Case => current.tag = "class" /\ current.val[1].name = NameMath /\ progress = Num(45)

\* C4 as amended: at 09:45 on a Monday with Math 09:00-10:00, currentClass is
\* Math and the progress is 75 (45 of the 60 minutes have elapsed)
C4_MathProgress ==
  C4_Case => current.tag = "class" /\ current.val[1].name = NameMath /\ progress = Num(75)

\* Math is the only class of the list and it is 09:45 on a Monday
C4_Witness == C4_Case /\ Len(classes) = 1 /\ current = Some(classes[1])

----------------------------------------------------------------------------
(* The timetable: reference notions and properties *)

\* a.start < b.end and a.end > b.start on minutes of day
RefOverlap(a, b) ==
  RefMinutes(a.start) < RefMinutes(b.end) /\ RefMinutes(a.end) > RefMinutes(b.start)

\* the position entry i of the list takes when the list is ordered by start,
\* entries with equal starts keeping their order
RefRank(list, i) ==
  Cardinality({j \in 1..Len(list) :
                 \/ RefMinutes(list[j].start) < RefMinutes(list[i].start)
                 \/ RefMinutes(list[j].start) = RefMinutes(list[i].start) /\ j < i}) + 1

RefSorted(list) == [r \in 1..Len(list) |-> list[CHOOSE i \in 1..Len(list) : RefRank(list, i) = r]]

\* the number of the group entry i of the sorted list s joins: the lowest
\* group holding an earlier entry it overlaps, or else a new group
RECURSIVE RefGroupOf(_, _)
RefGroupOf(s, i) ==
  LET hits == {j \in 1..(i - 1) : RefOverlap(s[i], s[j])}
  IN IF hits = {} THEN Cardinality({RefGroupOf(s, j) : j \in 1..(i - 1)}) + 1
     ELSE LET gs == {RefGroupOf(s, j) : j \in hits}
          IN CHOOSE g \in gs : \A h \in gs : g <= h

FracEq(a, b) == a.num * b.den = b.num * a.den
FracLe(a, b) == a.num * b.den <= b.num * a.den
FracAdd(a, b) == Frac(a.num * b.den + b.num * a.den, a.den * b.den)

\* lay gives every entry of the list the slot of the first-match grouping:
\* width 100/k and left 100 * index / k in a group of k
IsFirstMatchLayout(lay, list) ==
  LET s == RefSorted(list)
      n == Len(s)
  IN /\ DOMAIN lay = {list[i].id : i \in 1..n}
     /\ \A i \in 1..n :
          LET g == RefGroupOf(s, i)
              k == Cardinality({j \in 1..n : RefGroupOf(s, j) = g})
              index == Cardinality({j \in 1..(i - 1) : RefGroupOf(s, j) = g})
          IN /\ FracEq(lay[s[i].id].width, Frac(100, k))
             /\ FracEq(lay[s[i].id].left, Frac(100 * index, k))

\* the list is the chain Math 09:00-10:00, Lit 09:30-10:30, PE 10:15-11:00
IsChain(list) ==
  /\ Len(list) = 3
  /\ {[name |-> list[i].name, start |-> list[i].start, end |-> list[i].end] : i \in 1..3}
       = {Shape(NameMath, T0900, T1000), Shape(NameLit, T0930, T1030), Shape(NamePE, T1015, T1100)}

\* the left offset, in percent, the layout gives the entry named name
LeftOfName(lay, list, name) == lay[(CHOOSE c \in {list[i] : i \in 1..Len(list)} : c.name = name).id].left

\* C5: for every day, getOverlapLayout is the first-match grouping of the
\* day's entries; the chain Math, Lit, PE is one group with widths 1/3 and
\* left offsets 0, 1/3, 2/3
C5_OverlapLayout ==
  \A d \in 0..6 :
    LET list == byDay(d)
        lay == getOverlapLayout(list)
    IN /\ IsFirstMatchLayout(lay, list)
       /\ IsChain(list) =>
            /\ \A id \in DOMAIN lay : FracEq(lay[id].width, Frac(100, 3))
            /\ FracEq(LeftOfName(lay, list, NameMath), Frac(0, 1))
            /\ FracEq(LeftOfName(lay, list, NameLit), Frac(100, 3))
            /\ FracEq(LeftOfName(lay, list, NamePE), Frac(200, 3))

\* Monday holds the chain, entered as PE, Math, Lit, and PE is third of three
C5_Witness ==
  /\ Len(classes) = 3
  /\ \A i \in 1..3 : classes[i].day = 0
  /\ IsChain(classes)
  /\ classes[1].name = NamePE
  /\ classes[2].name = NameMath
  /\ getOverlapLayout(byDay(0))[classes[1].id] = Slot(3, 2)

\* the slots [left, left + width) of a and b do not intersect
SlotsDisjoint(a, b) ==
  FracLe(FracAdd(a.left, a.width), b.left) \/ FracLe(FracAdd(b.left, b.width), a.left)

\* the slot lies within [0, 100] percent
SlotInColumn(a) == FracLe(Frac(0, 1), a.left) /\ FracLe(FracAdd(a.left, a.width), Frac(100, 1))

\* every entry of the list ends after it starts
AllProper(list) == \A i \in 1..Len(list) : RefMinutes(list[i].end) > RefMinutes(list[i].start)

\* C6: on a day whose entries all have end > start (and distinct ids), two
\* entries that overlap in time get slots that do not intersect, and every
\* slot lies within the column
C6_OverlappingApart ==
  \A d \in 0..6 :
    LET list == byDay(d)
        lay == getOverlapLayout(list)
    IN AllProper(list) =>
         /\ \A i \in 1..Len(list) : SlotInColumn(BlockPos(lay, list[i]))
         /\ \A i, j \in 1..Len(list) :
              i # j /\ RefOverlap(list[i], list[j]) =>
                SlotsDisjoint(BlockPos(lay, list[i]), BlockPos(lay, list[j]))

\* a day of three proper entries: two overlap and sit side by side, the third
\* overlaps neither and has the whole column
C6_Witness ==
  \E d \in 0..6 :
    LET list == byDay(d)
        lay == getOverlapLayout(list)
    IN /\ Len(list) = 3
       /\ AllProper(list)
       /\ RefOverlap(list[1], list[2])
       /\ ~RefOverlap(list[1], list[3]) /\ ~RefOverlap(list[2], list[3])
       /\ lay[list[1].id] = Slot(2, 0)
       /\ lay[list[2].id] = Slot(2, 1)
       /\ lay[list[3].id] = Slot(1, 0)

\* the least and the greatest element of a non-empty set of integers
SetMin(S) == CHOOSE x \in S : \A y \in S : x <= y
SetMax(S) == CHOOSE x \in S : \A y \in S : x >= y

\* C7: the visible hours are max(0, min(6, min floor(start/60))) and
\* min(24, max(18, max ceil(end/60)) + 1), and [6, 24) without entries; the
\* lower bound is at most 6, the upper bound between 19 and 24
C7_GridHours ==
  LET n == Len(classes)
      floors == {RefMinutes(classes[i].start) \div 60 : i \in 1..n}
      ceils == {(RefMinutes(classes[i].end) + 59) \div 60 : i \in 1..n}
  IN /\ ~startHour.nan /\ ~endHour.nan
     /\ n = 0 => startHour.v = 6 /\ endHour.v = 24
     /\ n > 0 => /\ startHour.v = SetMax({0, SetMin(floors \cup {6})})
                 /\ endHour.v = SetMin({24, SetMax(ceils \cup {18}) + 1})
     /\ startHour.v <= 6
     /\ endHour.v >= 19 /\ endHour.v <= 24

\* a class before 06:00 lowers the first hour to 5 and a class that ends in
\* the 20th hour raises the last hour to 21
C7_Witness ==
  /\ Len(classes) = 2
  /\ \E i \in 1..2 : classes[i].start = T0530
  /\ \E i \in 1..2 : classes[i].end = T1920
  /\ startHour = Num(5)
  /\ endHour = Num(21)

----------------------------------------------------------------------------
(* The study log: reference notions and properties *)

\* the integer nearest to h/2 (a half rounding up), limited to [0, 1440]
RefClampRound(h) ==
  LET r == CHOOSE n \in ((h \div 2) - 1)..((h \div 2) + 1) : 2 * n - 1 <= h /\ h < 2 * n + 1
  IN IF r < 0 THEN 0 ELSE IF r > 1440 THEN 1440 ELSE r

RefTwoDigits(n) == <<DigitChar((n \div 10) % 10), DigitChar(n % 10)>>
RefFourDigits(n) == RefTwoDigits(n \div 100) \o RefTwoDigits(n % 100)

\* "YYYY-MM-DD" of the local calendar date of instant t
RefLocalDateKey(t) ==
  LET c == Civil((t + tz) \div MinutesPerDay)
  IN RefFourDigits(c.y) \o <<"-">> \o RefTwoDigits(c.m) \o <<"-">> \o RefTwoDigits(c.d)

\* C9 as stated: weeklyMinutes has 7 elements, Monday to Sunday of the local
\* week; minutes logged on a local weekday appear at that weekday's index and
\* change no other index; logging 90 on a Wednesday into an empty log gives
\* [0,0,90,0,0,0,0] (the handler is called at the instant of its render)
C9_Original ==
  [][\A h \in StudyInputs :
       (setTodayMinutes(h) /\ rNow = now) =>
         LET after == WeeklyMinutesOf(studyLog', rNow')
         IN /\ Len(after) = 7
            /\ after[RefWeekday + 1] = Num(RefClampRound(h))
            /\ \A j \in 1..7 : j # RefWeekday + 1 => after[j] = weeklyMinutes[j]
            /\ (studyLog = EmptyLog /\ RefWeekday = 2 /\ h = 180) =>
                 after = <<Num(0), Num(0), Num(90), Num(0), Num(0), Num(0), Num(0)>>]_vars

\* C10 as stated: dateKey(d) is the zero-padded 10-character YYYY-MM-DD of the
\* local calendar date of d
C10_Original ==
  /\ Len(todayKey) = 10
  /\ todayKey = RefLocalDateKey(rNow)

----------------------------------------------------------------------------
(* The study log's values *)

\* C11 as stated: in every reachable state, after any sequence of
\* setTodayMinutes calls, imports of backup files and restarts from the
\* persisted store, every value of the study log is an integer number of
\* minutes in [0, 1440]
C11_Original ==
  \A k \in DOMAIN studyLog : ~studyLog[k].nan /\ studyLog[k].v \in 0..1440

----------------------------------------------------------------------------
(* The history window and its statistics *)

\* "YYYY-MM-DD" of the day with number n
RefKeyOfDayNumber(n) ==
  LET c == Civil(n)
  IN RefFourDigits(c.y) \o <<"-">> \o RefTwoDigits(c.m) \o <<"-">> \o RefTwoDigits(c.d)

\* the entries are those of `days` consecutive dates, oldest first, the last
\* one being the date of the key last
RefConsecutiveUpTo(w, days, last) ==
  /\ Len(w) = days
  /\ w[days].date = last
  /\ \E n \in {history[1].at \div MinutesPerDay + d : d \in {-1, 0, 1}} :
       \A j \in 1..days : w[j].date = RefKeyOfDayNumber(n - (days - j))

\* each entry's minutes is the log's value for its date, 0 for an absent date
RefMinutesFromLog(w) ==
  \A j \in 1..Len(w) :
    w[j].minutes = IF w[j].date \in DOMAIN studyLog THEN studyLog[w[j].date] ELSE Num(0)

\* C12 as stated: the window of the period has 7, 30 or 90 entries of
\* consecutive dates, oldest first; its last date is today's date key, the key
\* that setTodayMinutes writes; each entry holds the log's value for its date
\* (looked at when the root component has rendered at the current instant)
C12_Original ==
  (history # <<>> /\ rNow = now) =>
    LET days == IF history[1].period = "7days" THEN 7
                ELSE IF history[1].period = "1month" THEN 30 ELSE 90
    IN /\ RefConsecutiveUpTo(historyData, days, todayKey)
       /\ RefMinutesFromLog(historyData)

\* the sum of the entries' minutes, by counting: one pair <<j, u>> for each
\* of the minutes of a positive entry j, less one for each of a negative entry
RefSum(w) ==
  Cardinality(UNION {{<<j, u>> : u \in 1..w[j].minutes.v} : j \in 1..Len(w)})
    - Cardinality(UNION {{<<j, u>> : u \in 1..(-w[j].minutes.v)} : j \in 1..Len(w)})

\* the number of entries above 0
RefActive(w) == Cardinality({j \in 1..Len(w) : w[j].minutes.v > 0})

\* C13 as stated: for every history window, total is the sum of the minutes,
\* average is total / number of entries, max is the largest minutes value,
\* activeDays counts the entries above 0 (all of them 0 for an empty
\* window); for non-negative minutes max <= total, and activeDays = 0 exactly
\* when total = 0
C13_Original ==
  /\ StatsOf(<<>>) = [total |-> Num(0), avg |-> Frac(0, 1), max |-> Num(0), daysWorked |-> 0]
  /\ history # <<>> =>
       LET w == historyData
           values == {w[j].minutes.v : j \in 1..Len(w)}
       IN /\ stats.total = Num(RefSum(w))
          /\ FracEq(stats.avg, Frac(RefSum(w), Len(w)))
          /\ stats.max = Num(SetMax(values))
          /\ stats.daysWorked = RefActive(w)
          /\ (\A v \in values : v >= 0) =>
               /\ stats.max.v <= stats.total.v
               /\ stats.daysWorked = 0 <=> stats.total.v = 0

----------------------------------------------------------------------------
(* The longest day of the week *)

\* C14: for the week's seven non-negative minutes, longestDay is the lowest
\* index (0 = Monday) holding the maximum value; it is 0 for an all-zero week
\* and 2 for [0, 0, 90, 0, 0, 0, 0]
C14_LongestDay ==
  LET arr == weeklyMinutes
      top == SetMax({arr[j].v : j \in 1..7})
      first == SetMin({j \in 1..7 : arr[j].v = top})
      only90 == <<Num(0), Num(0), Num(90), Num(0), Num(0), Num(0), Num(0)>>
  IN (Len(arr) = 7 /\ \A j \in 1..7 : ~arr[j].nan /\ arr[j].v >= 0) =>
       /\ longestDay(arr) = first - 1
       /\ (\A j \in 1..7 : arr[j].v = 0) => longestDay(arr) = 0
       /\ longestDay(only90) = 2

\* a week whose maximum is positive and occurs twice, the first time after
\* Monday
C14_Witness ==
  LET arr == weeklyMinutes
      top == SetMax({arr[j].v : j \in 1..7})
  IN /\ top > 0
     /\ arr[1].v < top
     /\ Cardinality({j \in 1..7 : arr[j].v = top}) >= 2
     /\ longestDay(arr) = SetMin({j \in 1..7 : arr[j].v = top}) - 1

----------------------------------------------------------------------------
(* The class modal: rejected and accepted saves *)

\* the text is a time of day HH:MM
RefIsTime(s) ==
  /\ Len(s) = 5
  /\ s[3] = ":"
  /\ \A i \in {1, 2, 4, 5} : s[i] \in {"0", "1", "2", "3", "4", "5", "6", "7", "8", "9"}

\* the name is empty or made of spaces only
RefBlankName(c) == \A i \in 1..Len(c.name) : c.name[i] = " "

\* the end is a time of day after the start
RefEndAfterStart(c) ==
  /\ RefIsTime(c.start)
  /\ RefIsTime(c.end)
  /\ RefMinutes(c.end) > RefMinutes(c.start)

\* the modal's fields do not make a valid class
RefInvalidEdit == RefBlankName(tmp) \/ ~RefEndAfterStart(tmp)

\* C15 as stated: saveClass with an empty or whitespace-only name, or with an
\* end time that is not after the start time, saves nothing: the class list
\* is unchanged and the modal stays open with the entered fields
C15_Original ==
  [][(saveClass /\ RefInvalidEdit) =>
       /\ classes' = classes
       /\ showClassModal'
       /\ tmp' = tmp]_vars

\* C16 as stated: every rejected class edit shows a message, both for an
\* empty name and for an end time not after the start time (the modal is
\* still open after saveClass exactly when the edit was rejected)
C16_Original ==
  (handler = "saveClass" /\ showClassModal) => alertMsg # NoAlert

\* the identifiers of a class list
RefIdsOf(list) == {list[i].id : i \in 1..Len(list)}

\* C17: an accepted saveClass in create mode appends one entry with the
\* modal's fields and an identifier not in the list, the entries before it
\* unchanged; in edit mode the entry with the edited identifier becomes the
\* modal's fields under that identifier, at its position, every other entry
\* and the length unchanged; deleteClass(id) keeps exactly the entries with
\* another identifier, in order; the to-do list and the study log are
\* unchanged by all three
C17_ClassLifecycle ==
  [][LET created ==
           (saveClass /\ ~showClassModal' /\ editing = Null) =>
             /\ Len(classes') = Len(classes) + 1
             /\ SubSeq(classes', 1, Len(classes)) = classes
             /\ classes'[Len(classes')].id \notin RefIdsOf(classes)
             /\ classes'[Len(classes')] = [tmp EXCEPT !.id = classes'[Len(classes')].id]
             /\ todos' = todos /\ studyLog' = studyLog
         edited ==
           (saveClass /\ ~showClassModal' /\ editing # Null) =>
             /\ Len(classes') = Len(classes)
             /\ \A i \in 1..Len(classes) :
                  classes'[i] = IF classes[i].id = editing.val[1].id
                                  THEN [tmp EXCEPT !.id = editing.val[1].id]
                                  ELSE classes[i]
             /\ todos' = todos /\ studyLog' = studyLog
         deleted(id) ==
           deleteClass(id) =>
             LET keep == {i \in 1..Len(classes) : classes[i].id # id}
             IN /\ Len(classes') = Cardinality(keep)
                /\ \A i \in keep : classes'[Cardinality({j \in keep : j <= i})] = classes[i]
                /\ todos' = todos /\ studyLog' = studyLog
     IN created /\ edited /\ \A id \in Ids : deleted(id)]_vars

\* an edit has just been saved into a list of two classes: the edited entry
\* holds the modal's fields, which differ from what it held when the modal
\* was opened, and the other entry is there
C17_Witness ==
  /\ handler = "saveClass"
  /\ ~showClassModal
  /\ editing # Null
  /\ Len(classes) = 2
  /\ \E i \in 1..2 :
       /\ classes[i].id = editing.val[1].id
       /\ classes[i] = tmp
       /\ classes[i] # editing.val[1]

----------------------------------------------------------------------------
(* Backup files: import and export *)

\* the value a present field installs, the value held for an absent one
RefField(field, held) == IF field = <<>> THEN held ELSE field[1]

\* C18 as stated: the import of a file that parses as a snapshot object sets
\* each of classes, todos, studyLog, goal and dark whose field is present to
\* the file's value, leaves the others unchanged and reports success, for
\* every combination of present fields, the file written by export included
C18_Original ==
  [][\A f \in SnapshotFiles \cup {backup} :
       (f.kind = "json" /\ importFile(f)) =>
         /\ classes' = RefField(f.val.classes, classes)
         /\ todos' = RefField(f.val.todos, todos)
         /\ studyLog' = RefField(f.val.studyLog, studyLog)
         /\ goal' = RefField(f.val.goal, goal)
         /\ dark' = RefField(f.val.dark, dark)
         /\ alertMsg' = AlertImported]_vars

\* C19: the import of a file whose content cannot be parsed shows the failure
\* message and changes none of classes, todos, studyLog, goal and dark
C19_UnparsableImport ==
  [][\A f \in UnreadableFiles :
       importFile(f) =>
         /\ alertMsg' = AlertUnreadable
         /\ UNCHANGED <<classes, todos, studyLog, goal, dark>>]_vars

\* an unparsable file has just been imported over a state that holds classes,
\* to-dos and a study log
C19_Witness ==
  /\ handler = "import"
  /\ alertMsg = AlertUnreadable
  /\ showSettingsModal
  /\ backup.kind = "missing"
  /\ classes # <<>> /\ todos # <<>> /\ studyLog # EmptyLog

----------------------------------------------------------------------------
(* Startup from the persisted store *)

\* the collection a load must give for the blob found under its key
RefLoaded(blob, default) == IF blob.kind = "json" THEN blob.val ELSE default

\* C20: at startup each of classes, todos and studyLog whose blob is missing
\* or is not JSON is its empty default ([], [], {}), each one whose blob
\* parses is the parsed value, and no error is reported
C20_Startup ==
  [][Reload =>
       /\ classes' = RefLoaded(store.classes, <<>>)
       /\ todos' = RefLoaded(store.todos, <<>>)
       /\ studyLog' = RefLoaded(store.studyLog, EmptyLog)
       /\ alertMsg' = NoAlert]_vars

\* a load that found no classes blob, an unparsable to-do blob and a study log
\* that parsed
C20_Witness ==
  /\ handler = "mount"
  /\ loaded.classes = "missing" /\ classes = <<>>
  /\ loaded.todos = "garbled" /\ todos = <<>>
  /\ loaded.studyLog = "json" /\ studyLog = StoredLog
  /\ alertMsg = NoAlert

----------------------------------------------------------------------------
(* Persistence of the collections *)

\* C21 as stated: after every step the blob under the key of classes, todos
\* and studyLog is the serialization of the collection in memory, so that a
\* restart after any sequence of class, to-do, study-log and import
\* operations gives the same classes, todos and study log
C21_Original ==
  [][/\ store'.classes = JSONstringify(classes')
     /\ store'.todos = JSONstringify(todos')
     /\ store'.studyLog = JSONstringify(JSONLog(studyLog'))
     /\ Reload => (classes' = classes /\ todos' = todos /\ studyLog' = studyLog)]_vars

----------------------------------------------------------------------------
(* The display and the wall clock *)

\* the local weekday (Monday = 0) and minute of the day of the wall clock
RefActualWeekday == ((now + tz) \div MinutesPerDay + 3) % 7
RefActualMinute == (now + tz) % MinutesPerDay

\* the classes that are on at the wall clock's time
RefActualContaining ==
  {i \in 1..Len(classes) :
     /\ classes[i].day = RefActualWeekday
     /\ RefMinutes(classes[i].start) <= RefActualMinute
     /\ RefActualMinute < RefMinutes(classes[i].end)}

\* C22 as stated: without any user interaction the display follows the wall
\* clock; once the clock is two minutes or more past the last render, the
\* current class on display is the one derived from the actual time
C22_Original ==
  (now >= rNow + 2) =>
    IF RefActualContaining = {} THEN current = Undefined
    ELSE \E i \in RefActualContaining : current = Some(classes[i])

----------------------------------------------------------------------------
(* Time conversions *)

\* C23: toMin and fromMin are inverse on a day's minutes: for the time s of
\* the start field and its minute m in 0..1439, toMin(fromMin(m)) = m and
\* fromMin(toMin(s)) = s; toMin("00:30") = 30, fromMin(150) = "02:30", and
\* "23:59" comes back from the round trip
C23_TimeRoundTrip ==
  /\ LET s == tmp.start
         m == RefMinutes(s)
     IN /\ RefIsTime(s)
        /\ m \in 0..(MinutesPerDay - 1)
        /\ toMin(s) = Num(m)
        /\ toMin(fromMin(m)) = Num(m)
        /\ fromMin(toMin(s).v) = s
  /\ toMin(<<"0", "0", ":", "3", "0">>) = Num(30)
  /\ fromMin(150) = <<"0", "2", ":", "3", "0">>
  /\ fromMin(toMin(T2359).v) = T2359

\* the start field holds 23:59, the last minute of the day
C23_Witness ==
  /\ showClassModal
  /\ handler = "setTmp"
  /\ tmp.start = T2359
  /\ toMin(tmp.start) = Num(MinutesPerDay - 1)

----------------------------------------------------------------------------
(* The grid and the blocks *)

\* every entry has 00:00 <= start < end <= 23:59
RefWithinDay(list) ==
  \A i \in 1..Len(list) :
    /\ RefIsTime(list[i].start) /\ RefIsTime(list[i].end)
    /\ RefMinutes(list[i].start) < RefMinutes(list[i].end)
    /\ RefMinutes(list[i].end) <= MinutesPerDay - 1

\* C24: for a non-empty class list with 00:00 <= start < end <= 23:59 in every
\* entry, the visible hours hold every entry: startHour * 60 <= start and
\* end <= endHour * 60, so the top of each block is the unclamped position,
\* within the grid, and top plus natural height stays within the grid (in
\* percent of the grid's height)
C24_GridFits ==
  (Len(classes) > 0 /\ RefWithinDay(classes)) =>
    \A i \in 1..Len(classes) :
      LET c == classes[i]
          top == timePos(c.start)
          span == (endHour.v - startHour.v) * 60
      IN /\ startHour.v * 60 <= RefMinutes(c.start)
         /\ RefMinutes(c.end) <= endHour.v * 60
         /\ top = TimePosRaw(c.start)
         /\ FracEq(top, Frac((RefMinutes(c.start) - startHour.v * 60) * 100, span))
         /\ FracLe(Frac(0, 1), top) /\ FracLe(top, Frac(100, 1))
         /\ FracLe(FracAdd(top, Frac((RefMinutes(c.end) - RefMinutes(c.start)) * 100, span)),
                   Frac(100, 1))

\* a list within the day whose entries reach before 06:00 and up to 23:59: the
\* grid runs from 05:00 to 24:00 and the last block ends one minute above its
\* lower edge
C24_Witness ==
  /\ Len(classes) > 0 /\ RefWithinDay(classes)
  /\ \E i \in 1..Len(classes) : classes[i].start = T0530
  /\ \E i \in 1..Len(classes) : classes[i].end = T2359
  /\ startHour = Num(5) /\ endHour = Num(24)

\* C25 as stated: from the empty class list, whatever is entered in the
\* modal's name, day, start and end fields, every stored entry has an end
\* time after its start time
C25_Original ==
  \A i \in 1..Len(classes) : RefEndAfterStart(classes[i])

RECURSIVE Gcd(_, _)
Gcd(m, n) == IF n = 0 THEN m ELSE Gcd(n, m % n)

\* the same fraction in lowest terms
FracNorm(f) == LET g == Gcd(f.num, f.den) IN Frac(f.num \div g, f.den \div g)

\* top + height of the block of c, in percent of the grid's height
RenderedBottom(c) == FracNorm(FracAdd(FracNorm(timePos(c.start)), FracNorm(finalHeight(c))))

\* the rendered vertical extents [top, top + height) of two blocks intersect
RenderedIntersect(a, b) ==
  /\ ~FracLe(RenderedBottom(b), FracNorm(timePos(a.start)))
  /\ ~FracLe(RenderedBottom(a), FracNorm(timePos(b.start)))

\* C26 as stated: in a day column whose entries have distinct ids and
\* 00:00 <= start < end <= 23:59, two blocks whose rendered vertical extents
\* intersect (the height raised to the 60-pixel minimum) have disjoint
\* horizontal slots
C26_Original ==
  \A d \in 0..6 :
    LET list == byDay(d)
        lay == getOverlapLayout(list)
    IN (RefWithinDay(list) /\ Cardinality(RefIdsOf(list)) = Len(list)) =>
         \A i, j \in 1..Len(list) :
           (i # j /\ RenderedIntersect(list[i], list[j])) =>
             SlotsDisjoint(BlockPos(lay, list[i]), BlockPos(lay, list[j]))

\* C27: the class list changes only in a step that is an accepted saveClass
\* or a deleteClass; a field edit, closing the modal and opening it leave the
\* list and its stored copy unchanged; the mode of the modal is that of the
\* most recent open (openCreate sets create mode, openEdit(c) edit mode of c,
\* no other step changes it); an accepted save in create mode appends one
\* entry and leaves every earlier entry as it was; an accepted save in edit
\* mode of c keeps the length and every entry whose identifier is not c's
C27_ModalFrame ==
  [][LET accepted == saveClass /\ ~showClassModal'
         opened == openCreate \/ \E i \in 1..Len(classes) : openEdit(classes[i])
         fieldEdit ==
           \/ \E x \in ModalNames : setTmpName(x)
           \/ \E x \in ModalDays : setTmpDay(x)
           \/ \E x \in ModalStarts : setTmpStart(x)
           \/ \E x \in ModalEnds : setTmpEnd(x)
         changes == (classes' # classes) => (accepted \/ \E id \in Ids : deleteClass(id))
         frame ==
           (fieldEdit \/ closeClassModal \/ opened \/ (saveClass /\ showClassModal')) =>
             (classes' = classes /\ store' = store)
         mode ==
           /\ openCreate => editing' = Null
           /\ \A i \in 1..Len(classes) : openEdit(classes[i]) => editing' = Some(classes[i])
           /\ (~opened) => editing' = editing
         created ==
           (accepted /\ editing = Null) =>
             /\ Len(classes') = Len(classes) + 1
             /\ \A i \in 1..Len(classes) : classes'[i] = classes[i]
         edited ==
           (accepted /\ editing # Null) =>
             /\ Len(classes') = Len(classes)
             /\ \A i \in 1..Len(classes) :
                  classes[i].id # editing.val[1].id => classes'[i] = classes[i]
     IN changes /\ frame /\ mode /\ created /\ edited]_vars

\* a class has just been created next to an existing one: the modal was in
\* create mode, the new entry is the last and the first is another class
C27_Witness ==
  /\ handler = "saveClass"
  /\ ~showClassModal
  /\ editing = Null
  /\ Len(classes) = 2
  /\ classes[2] = [tmp EXCEPT !.id = classes[2].id]
  /\ classes[1].id # classes[2].id

====
